---- MODULE Spec2Model ----
(***************************************************************************)
(* The ETL pipeline of etlgo: ETLService.RunETL (extract, transform, load, *)
(* aggregate) over the in-memory ad, CRM and metrics repositories.         *)
(*                                                                         *)
(* Time is counted in hours since 2024-01-01T00:00:00Z.  A time.Time   *)
(* is [utc |-> instant, off |-> zone offset in hours]; a day key (the      *)
(* "2006-01-02" rendering of a time.Time) is the number of the calendar    *)
(* day in the value's own zone.  A raw date string is a token              *)
(* [shape, f1, f2, f3, hh, off] giving its punctuation and its fields.     *)
(***************************************************************************)
EXTENDS Integers, Sequences, FiniteSets, TLC

\* ------------------------------------------------------------------ bounds
MaxAds == 2
MaxCRM == 1
MaxRuns == 2
MaxHist == 1
MaxCalcAds == 2
MaxCalcOpps == 2
MaxWorkers == 2
MaxPoolAds == 2
MaxScanAds == 2
MaxBuckets == 2
\* Go's int has 64 bits where the program is built; the model's has IntBits, which is
\* enough for the default limit and keeps the wrap-around of an addition
IntBits == 8

\* --------------------------------------------------------------- constants
HoursPerDay == 24
\* calculateMetrics scans from Now - 365 days to Now + 30 days
ScanBackDays == 365
ScanAheadDays == 30
\* config.Load: MAX_RETRIES, WORKER_POOL_SIZE defaults
MaxRetries == 3
WorkerPoolSize == 10

None == [none |-> TRUE]

\* a Go slice: nil, or a list of items
NilSlice == [nil |-> TRUE, items |-> <<>>]
Slice(items) == [nil |-> FALSE, items |-> items]

\* ---------------------------------------------------------------- calendar
IsLeap(y) == (y % 4 = 0 /\ y % 100 # 0) \/ y % 400 = 0

DaysInMonth(y, m) ==
    CASE m \in {4, 6, 9, 11} -> 30
      [] m = 2 -> IF IsLeap(y) THEN 29 ELSE 28
      [] OTHER -> 31

DaysInYear(y) == IF IsLeap(y) THEN 366 ELSE 365

\* days from 0001-01-01 to the first day of year y
DaysSinceYearOne(y) == 365 * (y - 1) + ((y - 1) \div 4) - ((y - 1) \div 100) + ((y - 1) \div 400)

\* days from 2024-01-01 to the first day of year y (negative before 2024)
DaysBeforeYear(y) == DaysSinceYearOne(y) - DaysSinceYearOne(2024)

RECURSIVE DaysBeforeMonth(_, _)
DaysBeforeMonth(y, m) == IF m <= 1 THEN 0 ELSE DaysInMonth(y, m - 1) + DaysBeforeMonth(y, m - 1)

\* time.Date(y, m, d, hh, 0, 0, 0, zone off): the instant and its zone
TimeOf(y, m, d, hh, off) ==
    [utc |-> (DaysBeforeYear(y) + DaysBeforeMonth(y, m) + (d - 1)) * HoursPerDay + hh - off,
     off |-> off]

ValidDate(y, m, d) == m \in 1..12 /\ d >= 1 /\ d <= DaysInMonth(y, m)

\* time.Time.Before / After compare instants
Before(a, b) == a.utc < b.utc
After(a, b) == a.utc > b.utc

\* t.Format("2006-01-02"): the calendar day of t in t's own zone
DateKey(t) == (t.utc + t.off) \div HoursPerDay

\* t.AddDate(0, 0, n)
AddDays(t, n) == [utc |-> t.utc + n * HoursPerDay, off |-> t.off]

\* ----------------------------------------------------------------- layouts
\* time.Parse(layout, s): [ok, t]; on failure t is the zero time.Time
ZeroTime == [utc |-> -(DaysSinceYearOne(2024) * HoursPerDay), off |-> 0]

Fail == [ok |-> FALSE, t |-> ZeroTime]
Got(t) == [ok |-> TRUE, t |-> t]

Parse(layout, s) ==
    CASE layout = "2006-01-02" ->
           IF s.shape = "Y-M-D" /\ ValidDate(s.f1, s.f2, s.f3)
           THEN Got(TimeOf(s.f1, s.f2, s.f3, 0, 0)) ELSE Fail
      [] layout = "2006/01/02" ->
           IF s.shape = "Y/M/D" /\ ValidDate(s.f1, s.f2, s.f3)
           THEN Got(TimeOf(s.f1, s.f2, s.f3, 0, 0)) ELSE Fail
      [] layout = "01/02/2006" ->
           IF s.shape = "N/N/Y" /\ ValidDate(s.f3, s.f1, s.f2)
           THEN Got(TimeOf(s.f3, s.f1, s.f2, 0, 0)) ELSE Fail
      [] layout = "02/01/2006" ->
           IF s.shape = "N/N/Y" /\ ValidDate(s.f3, s.f2, s.f1)
           THEN Got(TimeOf(s.f3, s.f2, s.f1, 0, 0)) ELSE Fail
      [] layout = "RFC3339" ->
           IF s.shape = "Y-M-DTh:m:sZ" /\ ValidDate(s.f1, s.f2, s.f3) /\ s.hh \in 0..23
           THEN Got(TimeOf(s.f1, s.f2, s.f3, s.hh, s.off)) ELSE Fail
      [] layout = "2006-01-02 15:04:05" ->
           IF s.shape = "Y-M-D h:m:s" /\ ValidDate(s.f1, s.f2, s.f3) /\ s.hh \in 0..23
           THEN Got(TimeOf(s.f1, s.f2, s.f3, s.hh, 0)) ELSE Fail
      [] layout = "2006/01/02 15:04:05" ->
           IF s.shape = "Y/M/D h:m:s" /\ ValidDate(s.f1, s.f2, s.f3) /\ s.hh \in 0..23
           THEN Got(TimeOf(s.f1, s.f2, s.f3, s.hh, 0)) ELSE Fail
      [] OTHER -> Fail

AdDateFormats == <<"2006-01-02", "2006/01/02", "01/02/2006", "02/01/2006", "RFC3339">>
CRMDateFormats ==
    <<"RFC3339", "2006-01-02 15:04:05", "2006-01-02", "2006/01/02 15:04:05", "2006/01/02">>

\* A loop that is not the program's: it tries the layouts from the last to the first.
\* C12 tells it from TryFormats.
RECURSIVE TryFormatsBackward(_, _, _)
TryFormatsBackward(formats, i, s) ==
    LET r == Parse(formats[Len(formats) + 1 - i], s)
    IN IF r.ok \/ i = Len(formats) THEN r ELSE TryFormatsBackward(formats, i + 1, s)

\* for _, format := range dateFormats { date, err = time.Parse(format, s); if err == nil { break } }
RECURSIVE TryFormats(_, _, _)
TryFormats(formats, i, s) ==
    LET r == Parse(formats[i], s)
    IN IF r.ok \/ i = Len(formats) THEN r ELSE TryFormats(formats, i + 1, s)

ParseAdDate(s) == TryFormats(AdDateFormats, 1, s)
ParseCRMDate(s) == TryFormats(CRMDateFormats, 1, s)

\* A normalization that is not the program's: it also trims the value.
\* C11 tells it from NormalizeUTM.
NormalizeUTMTrimmed(v) == IF v = "" THEN "unknown" ELSE IF v = " Sale " THEN "Sale" ELSE v

\* if utm == "" { utm = "unknown" }
NormalizeUTM(v) == IF v = "" THEN "unknown" ELSE v

\* --------------------------------------------------------------- transform
\* domain.ProcessedAdData built from one raw ad and its parsed date
NormalizedAd(ad, date) ==
    [date |-> date, campaign_id |-> ad.campaign_id, channel |-> ad.channel,
     clicks |-> ad.clicks, impressions |-> ad.impressions, cost |-> ad.cost,
     utm_campaign |-> NormalizeUTM(ad.utm_campaign),
     utm_source |-> NormalizeUTM(ad.utm_source),
     utm_medium |-> NormalizeUTM(ad.utm_medium)]

\* domain.ProcessedOpportunity built from one raw opportunity and its parsed date
NormalizedOpp(opp, createdAt) ==
    [opportunity_id |-> opp.opportunity_id, stage |-> opp.stage, amount |-> opp.amount,
     created_at |-> createdAt,
     utm_campaign |-> NormalizeUTM(opp.utm_campaign),
     utm_source |-> NormalizeUTM(opp.utm_source),
     utm_medium |-> NormalizeUTM(opp.utm_medium)]

\* The loop of processAdsData from record i on: acc.out is `processed`, acc.failed
\* the number of RecordETLRecordFailure("ads", "date_parse") calls made so far.
RECURSIVE AdsLoop(_, _, _, _)
AdsLoop(ads, i, since, acc) ==
    IF i > Len(ads) THEN acc
    ELSE LET r == ParseAdDate(ads[i].date)
         IN IF ~r.ok
            THEN AdsLoop(ads, i + 1, since, [acc EXCEPT !.failed = @ + 1])
            ELSE IF since # None /\ Before(r.t, since)
                 THEN AdsLoop(ads, i + 1, since, acc)
                 ELSE AdsLoop(ads, i + 1, since,
                              [acc EXCEPT !.out = Append(@, NormalizedAd(ads[i], r.t))])

RECURSIVE CRMLoop(_, _, _, _)
CRMLoop(opps, i, since, acc) ==
    IF i > Len(opps) THEN acc
    ELSE LET r == ParseCRMDate(opps[i].created_at)
         IN IF ~r.ok
            THEN CRMLoop(opps, i + 1, since, [acc EXCEPT !.failed = @ + 1])
            ELSE IF since # None /\ Before(r.t, since)
                 THEN CRMLoop(opps, i + 1, since, acc)
                 ELSE CRMLoop(opps, i + 1, since,
                              [acc EXCEPT !.out = Append(@, NormalizedOpp(opps[i], r.t))])

\* A transform that is not the program's: it drops unparseable ad records without
\* counting them.  C10 tells it from processAdsData.
processAdsDataSilent(ads, since) ==
    [AdsLoop(ads, 1, since, [out |-> <<>>, failed |-> 0]) EXCEPT !.failed = 0]

processAdsData(ads, since) == AdsLoop(ads, 1, since, [out |-> <<>>, failed |-> 0])
processCRMData(opps, since) == CRMLoop(opps, 1, since, [out |-> <<>>, failed |-> 0])

\* ------------------------------------------------------------ repositories
\* A repository's data map: day key -> the slice stored under it.
\* A write that is not the program's: it replaces what the day already holds.
\* C6 tells it from Put.
PutOverwrite(data, key, rec) ==
    [k \in DOMAIN data \cup {key} |-> IF k = key THEN <<rec>> ELSE data[k]]

\* r.data[dateKey] = append(r.data[dateKey], rec)
Put(data, key, rec) ==
    IF key \in DOMAIN data
    THEN [data EXCEPT ![key] = Append(@, rec)]
    ELSE [k \in DOMAIN data \cup {key} |-> IF k = key THEN <<rec>> ELSE data[k]]

RECURSIVE AdStoreLoop(_, _, _)
AdStoreLoop(data, ads, i) ==
    IF i > Len(ads) THEN data
    ELSE AdStoreLoop(Put(data, DateKey(ads[i].date), ads[i]), ads, i + 1)

RECURSIVE CRMStoreLoop(_, _, _)
CRMStoreLoop(data, opps, i) ==
    IF i > Len(opps) THEN data
    ELSE CRMStoreLoop(Put(data, DateKey(opps[i].created_at), opps[i]), opps, i + 1)

RECURSIVE MetricsStoreLoop(_, _, _)
MetricsStoreLoop(data, ms, i) ==
    IF i > Len(ms) THEN data
    ELSE MetricsStoreLoop(Put(data, DateKey(ms[i].date), ms[i]), ms, i + 1)

\* AdRepository.Store, CRMRepository.Store, MetricsRepository.Store: the map afterwards
AdRepoStore(data, ads) == AdStoreLoop(data, ads, 1)
CRMRepoStore(data, opps) == CRMStoreLoop(data, opps, 1)
MetricsRepoStore(data, ms) == MetricsStoreLoop(data, ms, 1)

\* for date := from; !date.After(to); date = date.AddDate(0, 0, 1) { result = append(result, data[key]...) }
\* The loop visits date_k = from.AddDate(0, 0, k) for k = 0, 1, ... while !date_k.After(to).
\* LoopSteps: the k visited; LoopHits: those whose day key has a partition.
LoopSteps(from, to) ==
    IF After(from, to) THEN {} ELSE 0..((to.utc - from.utc) \div HoursPerDay)
LoopHits(data, from, to) ==
    {k \in LoopSteps(from, to) : DateKey(AddDays(from, k)) \in DOMAIN data}

\* result = append(result, data[dateKey]...) over the hits, in loop order
RECURSIVE RangeLoop(_, _, _)
RangeLoop(data, from, ks) ==
    IF ks = {} THEN <<>>
    ELSE LET k == CHOOSE x \in ks : \A y \in ks : x <= y
         IN data[DateKey(AddDays(from, k))] \o RangeLoop(data, from, ks \ {k})

\* A read that is not the program's: it returns every partition, whatever the range.
\* C13 tells it from GetByDateRange.
GetByDateRangeAll(data, from, to) ==
    RangeLoop(data, AddDays(ZeroTime, -1), {k + 1 - DateKey(ZeroTime) : k \in DOMAIN data})

\* AdRepository.GetByDateRange, CRMRepository.GetByDateRange
GetByDateRange(data, from, to) == RangeLoop(data, from, LoopHits(data, from, to))

\* -------------------------------------------------------------- aggregation
\* domain.UTMKey of a normalized record
UTMKeyOf(rec) ==
    [campaign |-> rec.utm_campaign, source |-> rec.utm_source, medium |-> rec.utm_medium]

\* A loop that is not the program's: a record as late as the latest so far replaces
\* it.  C19 tells it from AdTotalsLoop.
RECURSIVE AdTotalsLoopLastSeen(_, _, _)
AdTotalsLoopLastSeen(ads, i, acc) ==
    IF i > Len(ads) THEN acc
    ELSE LET ad == ads[i]
             sums == [acc EXCEPT !.clicks = @ + ad.clicks,
                                 !.impressions = @ + ad.impressions,
                                 !.cost = @ + ad.cost]
         IN AdTotalsLoopLastSeen(ads, i + 1,
                IF ~Before(ad.date, acc.latestDate)
                THEN [sums EXCEPT !.latestDate = ad.date,
                                  !.channel = ad.channel,
                                  !.campaign_id = ad.campaign_id]
                ELSE sums)

\* A loop that is not the program's: the totals start again at each later date, so
\* that they are those of the latest day alone.  C15 tells it from AdTotalsLoop.
RECURSIVE AdTotalsLoopPerDay(_, _, _)
AdTotalsLoopPerDay(ads, i, acc) ==
    IF i > Len(ads) THEN acc
    ELSE LET ad == ads[i]
         IN AdTotalsLoopPerDay(ads, i + 1,
                IF After(ad.date, acc.latestDate)
                THEN [clicks |-> ad.clicks, impressions |-> ad.impressions,
                      cost |-> ad.cost, latestDate |-> ad.date,
                      channel |-> ad.channel, campaign_id |-> ad.campaign_id]
                ELSE [acc EXCEPT !.clicks = @ + ad.clicks,
                                 !.impressions = @ + ad.impressions,
                                 !.cost = @ + ad.cost])

\* for _, ad := range ads { totals += ...; if ad.Date.After(latestDate) { ... } }
RECURSIVE AdTotalsLoop(_, _, _)
AdTotalsLoop(ads, i, acc) ==
    IF i > Len(ads) THEN acc
    ELSE LET ad == ads[i]
             sums == [acc EXCEPT !.clicks = @ + ad.clicks,
                                 !.impressions = @ + ad.impressions,
                                 !.cost = @ + ad.cost]
         IN AdTotalsLoop(ads, i + 1,
                IF After(ad.date, acc.latestDate)
                THEN [sums EXCEPT !.latestDate = ad.date,
                                  !.channel = ad.channel,
                                  !.campaign_id = ad.campaign_id]
                ELSE sums)

\* A loop that is not the program's: the amount of every opportunity counts as revenue,
\* whatever its stage.  C16 tells it from OppCountsLoop.
RECURSIVE OppCountsLoopAnyStage(_, _, _)
OppCountsLoopAnyStage(opps, i, acc) ==
    IF i > Len(opps) THEN acc
    ELSE LET opp == opps[i]
             won == [acc EXCEPT !.revenue = @ + opp.amount]
         IN OppCountsLoopAnyStage(opps, i + 1,
                CASE opp.stage = "lead" -> [won EXCEPT !.leads = @ + 1]
                  [] opp.stage = "opportunity" -> [won EXCEPT !.opps = @ + 1]
                  [] opp.stage = "closed_won" -> [won EXCEPT !.closedWon = @ + 1]
                  [] OTHER -> won)

\* for _, opp := range opportunities { switch opp.Stage { ... } }
RECURSIVE OppCountsLoop(_, _, _)
OppCountsLoop(opps, i, acc) ==
    IF i > Len(opps) THEN acc
    ELSE LET opp == opps[i]
         IN OppCountsLoop(opps, i + 1,
                CASE opp.stage = "lead" -> [acc EXCEPT !.leads = @ + 1]
                  [] opp.stage = "opportunity" -> [acc EXCEPT !.opps = @ + 1]
                  [] opp.stage = "closed_won" ->
                       [acc EXCEPT !.closedWon = @ + 1, !.revenue = @ + opp.amount]
                  [] OTHER -> acc)

\* A float64 ratio, kept exact: the fraction num/den in lowest terms, den > 0.
RECURSIVE GCD(_, _)
GCD(a, b) == IF b = 0 THEN a ELSE GCD(b, a % b)
Abs(n) == IF n < 0 THEN -n ELSE n
Quot(n, d) ==
    LET g == GCD(Abs(n), d) IN [num |-> n \div g, den |-> d \div g]
\* the zero value a ratio field keeps when its guard is false
ZeroRatio == [num |-> 0, den |-> 1]

\* A ratio that is not the program's: the operands of the division are exchanged.
\* C17 tells it from Guarded.
GuardedSwapped(guard, n, d) == IF guard > 0 /\ n > 0 THEN Quot(d, n) ELSE ZeroRatio

\* if guard > 0 { metric.X = n / d }
Guarded(guard, n, d) == IF guard > 0 THEN Quot(n, d) ELSE ZeroRatio

\* calculateMetricForUTM: None is the nil it returns for an empty group
calculateMetricForUTM(ads, opps, utm) ==
    IF Len(ads) = 0 THEN None
    ELSE LET a == AdTotalsLoop(ads, 1,
                      [clicks |-> 0, impressions |-> 0, cost |-> 0,
                       latestDate |-> ZeroTime, channel |-> "", campaign_id |-> ""])
             o == OppCountsLoop(opps, 1,
                      [leads |-> 0, opps |-> 0, closedWon |-> 0, revenue |-> 0])
         IN [date |-> a.latestDate, channel |-> a.channel, campaign_id |-> a.campaign_id,
             utm_campaign |-> utm.campaign, utm_source |-> utm.source,
             utm_medium |-> utm.medium,
             clicks |-> a.clicks, impressions |-> a.impressions, cost |-> a.cost,
             leads |-> o.leads, opportunities |-> o.opps, closed_won |-> o.closedWon,
             revenue |-> o.revenue,
             cpc |-> Guarded(a.clicks, a.cost, a.clicks),
             cpa |-> Guarded(o.leads, a.cost, o.leads),
             cvr_lead_to_opp |-> Guarded(o.leads, o.opps, o.leads),
             cvr_opp_to_won |-> Guarded(o.opps, o.closedWon, o.opps),
             roas |-> Guarded(a.cost, o.revenue, a.cost)]

\* adsByUTM / oppsByUTM: the group of a key, in slice order (empty for an absent key)
GroupOf(recs, utm) == SelectSeq(recs, LAMBDA r : UTMKeyOf(r) = utm)
KeysOf(recs) == {UTMKeyOf(recs[i]) : i \in 1..Len(recs)}

\* every order in which the keys of S can come out of the results channel
Orderings(S) ==
    {f \in [1..Cardinality(S) -> S] : \A i, j \in 1..Cardinality(S) : f[i] = f[j] => i = j}

\* calculateMetricsWithWorkerPool: the slices it can return.  The jobs channel holds
\* every key of adsByUTM; with no worker nothing is computed and the closed results
\* channel yields the empty slice; with workers every key is computed once and the
\* results arrive in any order.
calculateMetricsWithWorkerPool(ads, opps, workers) ==
    IF workers <= 0 THEN {<<>>}
    ELSE {SelectSeq([i \in 1..Len(order) |->
                        calculateMetricForUTM(GroupOf(ads, order[i]),
                                              GroupOf(opps, order[i]), order[i])],
                    LAMBDA m : m # None) : order \in Orderings(KeysOf(ads))}

\* ------------------------------------------------------------------ inputs
Day(s, y, m, d) == [shape |-> s, f1 |-> y, f2 |-> m, f3 |-> d, hh |-> 0, off |-> 0]
Stamp(y, m, d, hh, off) ==
    [shape |-> "Y-M-DTh:m:sZ", f1 |-> y, f2 |-> m, f3 |-> d, hh |-> hh, off |-> off]
Text == [shape |-> "text", f1 |-> 0, f2 |-> 0, f3 |-> 0, hh |-> 0, off |-> 0]

RawAd(date, id, channel, clicks, cost, utm) ==
    [date |-> date, campaign_id |-> id, channel |-> channel, clicks |-> clicks,
     impressions |-> clicks * 10, cost |-> cost,
     utm_campaign |-> utm[1], utm_source |-> utm[2], utm_medium |-> utm[3]]

RawOpp(createdAt, id, stage, amount, utm) ==
    [opportunity_id |-> id, stage |-> stage, amount |-> amount, created_at |-> createdAt,
     utm_campaign |-> utm[1], utm_source |-> utm[2], utm_medium |-> utm[3]]

Sale == <<"sale", "google", "cpc">>
NoUTM == <<"", "", "">>

\* "2025-01-01"; "not-a-date"; "2025/06/01" with empty UTM fields;
\* "2025-06-01T02:00:00+05:00" (2025-05-31T21:00:00Z)
AdSamples ==
    {RawAd(Day("Y-M-D", 2025, 1, 1), "c1", "search", 100, 50, Sale),
     RawAd(Text, "c2", "social", 10, 5, Sale),
     RawAd(Day("Y/M/D", 2025, 6, 1), "c3", "social", 20, 8, NoUTM),
     RawAd(Stamp(2025, 6, 1, 2, 5), "c4", "display", 7, 3, Sale)}

\* "2025-01-01T00:00:00Z"; "2025-06-01T02:00:00+05:00"; "bad"
OppSamples ==
    {RawOpp(Stamp(2025, 1, 1, 0, 0), "o1", "lead", 0, Sale),
     RawOpp(Stamp(2025, 6, 1, 2, 5), "o2", "closed_won", 200, Sale),
     RawOpp(Text, "o3", "opportunity", 0, NoUTM)}

\* further raw records: "01/02/2025" (accepted as MM/DD and as DD/MM), "13/02/2025"
\* (DD/MM only), "02/30/2025" (no layout), "2025-06-02 10:00:00" (a CRM layout only);
\* UTM fields with spaces and capitals
Mixed == <<" Sale ", "", "CPC">>
Clock(sh, y, m, d, hh) == [shape |-> sh, f1 |-> y, f2 |-> m, f3 |-> d, hh |-> hh, off |-> 0]

RichAds ==
    {RawAd(Day("Y-M-D", 2025, 1, 1), "c1", "search", 100, 50, Sale),
     RawAd(Stamp(2025, 6, 1, 2, 5), "c4", "display", 7, 3, Sale),
     RawAd(Day("N/N/Y", 1, 2, 2025), "e1", "search", 3, 1, Mixed),
     RawAd(Day("N/N/Y", 13, 2, 2025), "e2", "social", 4, 2, Sale),
     RawAd(Day("N/N/Y", 2, 30, 2025), "e3", "social", 5, 2, NoUTM),
     RawAd(Clock("Y-M-D h:m:s", 2025, 6, 2, 10), "e4", "display", 6, 3, Sale)}

\* "2025-06-02 10:00:00", "2025-06-01", "2025/06/02 10:00:00", "2025/06/03", "01/02/2025"
RichOpps ==
    {RawOpp(Stamp(2025, 6, 1, 2, 5), "o2", "closed_won", 200, Sale),
     RawOpp(Clock("Y-M-D h:m:s", 2025, 6, 2, 10), "f1", "lead", 0, Mixed),
     RawOpp(Day("Y-M-D", 2025, 6, 1), "f2", "opportunity", 0, NoUTM),
     RawOpp(Clock("Y/M/D h:m:s", 2025, 6, 2, 10), "f3", "closed_won", 300, Sale),
     RawOpp(Day("Y/M/D", 2025, 6, 3), "f4", "closed_lost", 50, Sale),
     RawOpp(Day("N/N/Y", 1, 2, 2025), "f5", "lead", 0, Sale)}

\* the lists of at most n distinct records of S
SeqsUpTo(S, n) ==
    UNION {{f \in [1..k -> S] : \A i, j \in 1..k : f[i] = f[j] => i = j} : k \in 0..n}

\* the `since` query parameter of POST /ingest/run, parsed as "2006-01-02"
Sinces == {None, TimeOf(2025, 6, 1, 0, 0)}

\* time.Now() in the server's zone (UTC)
Now == TimeOf(2025, 6, 15, 12, 0)

\* What the upstream does with one fetch: the context ends while the rate limiter
\* waits, the transport fails, or a response arrives (status; body JSON or not).
Reply(status, body) == [kind |-> "response", status |-> status, body |-> body]
Upstream ==
    {[kind |-> "ctx_done", status |-> 0, body |-> ""],
     [kind |-> "transport", status |-> 0, body |-> ""],
     Reply(200, "json"), Reply(200, "garbled"), Reply(201, "json"), Reply(500, "json")}

\* ------------------------------------------------------------------- state
VARIABLES
    stage,        \* where RunETL is: Idle, Extracting, Transforming, Loading, Aggregating, Done, Failed
    run,          \* number of RunETL calls started
    since,        \* the since argument of the current run
    err,          \* the error RunETL returned, outermost wrap first (<<>> is nil)
    srcAds,       \* the performance list the ads API serves
    srcCRM,       \* the opportunity list the CRM API serves
    adsFetch,     \* extractData's ads goroutine: [done, data, err]
    crmFetch,     \* extractData's CRM goroutine: [done, data, err]
    requests,     \* HTTP requests put on the wire by the current run, per source
    adsData,      \* what extractData returned to RunETL (a slice)
    crmData,
    processedAds, \* what transformData returned
    processedCRM,
    recordsFailed,\* etl_records_failed_total{source, "date_parse"}
    adsLoad,      \* loadData's goroutines: "idle", "pending", "ok", "err"
    crmLoad,
    adStore,      \* AdRepository.data
    crmStore,     \* CRMRepository.data
    metricsStore, \* MetricsRepository.data
    emitted,      \* the slice calculateMetricsWithWorkerPool returned in the current run
    trace,        \* the stages the current run has entered, in order
    snap,         \* the data maps and the failure counters as they were when the run started
    pool,         \* one call of calculateMetricsWithWorkerPool: its channels and goroutines
    served,       \* one call of a repository or the requests the HTTP handlers have served
    doom          \* the stage in which every call that can fail does fail, None for no such plan

vars == <<stage, run, since, err, srcAds, srcCRM, adsFetch, crmFetch, requests, adsData,
          crmData, processedAds, processedCRM, recordsFailed, adsLoad, crmLoad, adStore,
          crmStore, metricsStore, emitted, trace, snap, pool, served, doom>>

Empty == [k \in {} |-> <<>>]
Pending == [done |-> FALSE, data |-> NilSlice, err |-> <<>>]

\* no call of calculateMetricsWithWorkerPool is being followed
PoolIdle == [phase |-> "idle"]
\* no repository call or request is being followed
NoCall == [op |-> "none"]

\* the service and its repositories as constructed: no run yet, empty data maps
Constructed ==
    /\ stage = "Idle"
    /\ run = 0
    /\ since = None
    /\ err = <<>>
    /\ adsFetch = Pending
    /\ crmFetch = Pending
    /\ requests = [ads |-> 0, crm |-> 0]
    /\ adsData = NilSlice
    /\ crmData = NilSlice
    /\ processedAds = <<>>
    /\ processedCRM = <<>>
    /\ recordsFailed = [ads |-> 0, crm |-> 0]
    /\ adsLoad = "idle"
    /\ crmLoad = "idle"
    /\ adStore = Empty
    /\ crmStore = Empty
    /\ metricsStore = Empty
    /\ emitted = <<>>
    /\ trace = <<>>
    /\ snap = [ad |-> Empty, crm |-> Empty, metrics |-> Empty,
               failed |-> [ads |-> 0, crm |-> 0]]

Init ==
    /\ srcAds \in SeqsUpTo(AdSamples, MaxAds)
    /\ srcCRM \in SeqsUpTo(OppSamples, MaxCRM)
    /\ Constructed
    /\ pool = PoolIdle
    /\ served = NoCall
    /\ doom = None

\* ------------------------------------------------------------------ extract
\* fmt.Errorf("<msg>: %w", cause): an error is the list of its messages, outermost first
Wrap(msg, cause) == <<msg>> \o cause

\* A fetch that is not the program's: it takes any status from 200 to 299, as Export
\* does.  C40 tells it from Fetch.
FetchAny2xx(api, up, payload) ==
    CASE up.kind = "ctx_done" ->
           [data |-> NilSlice, err |-> <<"rate limit exceeded", "context done">>, sent |-> 0]
      [] up.kind = "transport" ->
           [data |-> NilSlice, err |-> <<"failed to fetch " \o api \o " data", "transport">>,
            sent |-> 1]
      [] up.status < 200 \/ up.status >= 300 ->
           [data |-> NilSlice, err |-> <<api \o " API returned status " \o ToString(up.status)>>,
            sent |-> 1]
      [] up.body = "cut" ->
           [data |-> NilSlice, err |-> <<"failed to read response body", "read">>, sent |-> 1]
      [] up.body # "json" ->
           [data |-> NilSlice, err |-> <<"failed to parse " \o api \o " data", "syntax">>,
            sent |-> 1]
      [] OTHER -> [data |-> Slice(payload), err |-> <<>>, sent |-> 1]

\* HTTPClient.FetchAdsData / FetchCRMData for source api ("ads", "CRM") against one
\* upstream behaviour: [data, err, sent], sent telling whether client.Do was reached.
Fetch(api, up, payload) ==
    CASE up.kind = "ctx_done" ->
           [data |-> NilSlice, err |-> <<"rate limit exceeded", "context done">>, sent |-> 0]
      [] up.kind = "transport" ->
           [data |-> NilSlice, err |-> <<"failed to fetch " \o api \o " data", "transport">>,
            sent |-> 1]
      [] up.status # 200 ->
           [data |-> NilSlice, err |-> <<api \o " API returned status " \o ToString(up.status)>>,
            sent |-> 1]
      [] up.body = "cut" ->
           [data |-> NilSlice, err |-> <<"failed to read response body", "read">>, sent |-> 1]
      [] up.body # "json" ->
           [data |-> NilSlice, err |-> <<"failed to parse " \o api \o " data", "syntax">>,
            sent |-> 1]
      [] OTHER -> [data |-> Slice(payload), err |-> <<>>, sent |-> 1]

FetchAdsData(up, payload) == Fetch("ads", up, payload)
FetchCRMData(up, payload) == Fetch("CRM", up, payload)

\* RunETL entered: the two fetch goroutines of extractData are started
EnterRun(s) ==
    /\ stage \in {"Idle", "Done", "Failed"}
    /\ run < MaxRuns
    /\ run' = run + 1
    /\ since' = s
    /\ stage' = "Extracting"
    /\ err' = <<>>
    /\ adsFetch' = Pending
    /\ crmFetch' = Pending
    /\ requests' = [ads |-> 0, crm |-> 0]
    /\ adsData' = NilSlice
    /\ crmData' = NilSlice
    /\ processedAds' = <<>>
    /\ processedCRM' = <<>>
    /\ adsLoad' = "idle"
    /\ crmLoad' = "idle"
    /\ emitted' = <<>>
    /\ trace' = <<"Extracting">>
    /\ snap' = [ad |-> adStore, crm |-> crmStore, metrics |-> metricsStore,
                failed |-> recordsFailed]
    /\ UNCHANGED <<srcAds, srcCRM, recordsFailed, adStore, crmStore, metricsStore, pool, doom>>

\* RunETL called directly, no HTTP request being followed
StartRun(s) == EnterRun(s) /\ UNCHANGED served

\* A client that is not the program's: it issues a failed ads request again, up to
\* MaxRetries times in all.  C7 tells it from FetchAds.
FetchAdsRetrying(up) ==
    /\ stage = "Extracting"
    /\ ~adsFetch.done
    /\ LET r == FetchAdsData(up, srcAds)
       IN /\ adsFetch' = [done |-> TRUE, data |-> r.data, err |-> r.err]
          /\ requests' = [requests EXCEPT
                            !.ads = @ + (IF r.err # <<>> THEN MaxRetries * r.sent ELSE r.sent)]
    /\ UNCHANGED <<stage, run, since, err, srcAds, srcCRM, crmFetch, adsData, crmData,
                   processedAds, processedCRM, recordsFailed, adsLoad, crmLoad, adStore,
                   crmStore, metricsStore, emitted, trace, snap, pool, served, doom>>

\* go func() { adsData, adsErr = s.apiClient.FetchAdsData(ctx) }()
FetchAds(up) ==
    /\ stage = "Extracting"
    /\ ~adsFetch.done
    /\ LET r == FetchAdsData(up, srcAds)
       IN /\ adsFetch' = [done |-> TRUE, data |-> r.data, err |-> r.err]
          /\ requests' = [requests EXCEPT !.ads = @ + r.sent]
    /\ UNCHANGED <<stage, run, since, err, srcAds, srcCRM, crmFetch, adsData, crmData,
                   processedAds, processedCRM, recordsFailed, adsLoad, crmLoad, adStore,
                   crmStore, metricsStore, emitted, trace, snap, pool, served, doom>>

\* go func() { crmData, crmErr = s.apiClient.FetchCRMData(ctx) }()
FetchCRM(up) ==
    /\ stage = "Extracting"
    /\ ~crmFetch.done
    /\ LET r == FetchCRMData(up, srcCRM)
       IN /\ crmFetch' = [done |-> TRUE, data |-> r.data, err |-> r.err]
          /\ requests' = [requests EXCEPT !.crm = @ + r.sent]
    /\ UNCHANGED <<stage, run, since, err, srcAds, srcCRM, adsFetch, adsData, crmData,
                   processedAds, processedCRM, recordsFailed, adsLoad, crmLoad, adStore,
                   crmStore, metricsStore, emitted, trace, snap, pool, served, doom>>

\* An extraction that is not the program's: it hands over the batch of the source that
\* succeeded next to the error of the one that failed.  C2 tells it from extractData.
extractDataPartial(ads, crm) ==
    IF ads.err # <<>>
    THEN [ads |-> NilSlice, crm |-> crm.data, err |-> Wrap("ads data extraction failed", ads.err)]
    ELSE IF crm.err # <<>>
    THEN [ads |-> ads.data, crm |-> NilSlice, err |-> Wrap("CRM data extraction failed", crm.err)]
    ELSE [ads |-> ads.data, crm |-> crm.data, err |-> <<>>]

\* extractData after wg.Wait(): what it returns to RunETL
extractData(ads, crm) ==
    IF ads.err # <<>>
    THEN [ads |-> NilSlice, crm |-> NilSlice, err |-> Wrap("ads data extraction failed", ads.err)]
    ELSE IF crm.err # <<>>
    THEN [ads |-> NilSlice, crm |-> NilSlice, err |-> Wrap("CRM data extraction failed", crm.err)]
    ELSE [ads |-> ads.data, crm |-> crm.data, err |-> <<>>]

\* A join that is not the program's: it goes on as soon as the ads fetch has returned,
\* with an empty CRM batch if the CRM fetch is still out.  C1 tells it from ExtractJoin.
ExtractJoinEarly ==
    /\ stage = "Extracting"
    /\ adsFetch.done
    /\ LET crm == IF crmFetch.done THEN crmFetch ELSE [done |-> TRUE, data |-> Slice(<<>>), err |-> <<>>]
           r == extractData(adsFetch, crm)
       IN /\ adsData' = r.ads
          /\ crmData' = r.crm
          /\ IF r.err # <<>>
             THEN /\ stage' = "Failed"
                  /\ err' = Wrap("failed to extract data", r.err)
             ELSE /\ stage' = "Transforming"
                  /\ err' = <<>>
    /\ trace' = Append(trace, stage')
    /\ UNCHANGED <<run, since, srcAds, srcCRM, adsFetch, crmFetch, requests, processedAds,
                   processedCRM, recordsFailed, adsLoad, crmLoad, adStore, crmStore,
                   metricsStore, emitted, snap, pool, served, doom>>

\* wg.Wait() returns; RunETL fails on the error or goes on to transformData
ExtractJoin ==
    /\ stage = "Extracting"
    /\ adsFetch.done /\ crmFetch.done
    /\ LET r == extractData(adsFetch, crmFetch)
       IN /\ adsData' = r.ads
          /\ crmData' = r.crm
          /\ IF r.err # <<>>
             THEN /\ stage' = "Failed"
                  /\ err' = Wrap("failed to extract data", r.err)
             ELSE /\ stage' = "Transforming"
                  /\ err' = <<>>
    /\ trace' = Append(trace, stage')
    /\ UNCHANGED <<run, since, srcAds, srcCRM, adsFetch, crmFetch, requests, processedAds,
                   processedCRM, recordsFailed, adsLoad, crmLoad, adStore, crmStore,
                   metricsStore, emitted, snap, pool, served, doom>>

\* ---------------------------------------------------------------- transform
\* A transformation that is not the program's: a record whose date cannot be parsed
\* is an error of the stage.  C29 tells it from transformData.
transformDataStrict(ads, crm, s) ==
    LET a == processAdsData(ads, s)
        c == processCRMData(crm, s)
    IN [ads |-> a.out, crm |-> c.out, adsFailed |-> a.failed, crmFailed |-> c.failed,
        err |-> IF a.failed + c.failed > 0 THEN <<"parse">> ELSE <<>>]

\* transformData: [ads, crm, adsFailed, crmFailed, err]; it has no failing path
transformData(ads, crm, s) ==
    LET a == processAdsData(ads, s)
        c == processCRMData(crm, s)
    IN [ads |-> a.out, crm |-> c.out, adsFailed |-> a.failed, crmFailed |-> c.failed,
        err |-> <<>>]

\* RunETL calls transformData and goes on to loadData, whose two goroutines start
Transform ==
    /\ stage = "Transforming"
    /\ LET r == transformData(adsData.items, crmData.items, since)
       IN /\ processedAds' = r.ads
          /\ processedCRM' = r.crm
          /\ recordsFailed' = [ads |-> recordsFailed.ads + r.adsFailed,
                               crm |-> recordsFailed.crm + r.crmFailed]
          /\ IF r.err # <<>>
             THEN /\ stage' = "Failed"
                  /\ err' = Wrap("failed to transform data", r.err)
                  /\ UNCHANGED <<adsLoad, crmLoad>>
             ELSE /\ stage' = "Loading"
                  /\ adsLoad' = "pending"
                  /\ crmLoad' = "pending"
                  /\ UNCHANGED err
    /\ trace' = Append(trace, stage')
    /\ UNCHANGED <<run, since, srcAds, srcCRM, adsFetch, crmFetch, requests, adsData,
                   crmData, adStore, crmStore, metricsStore, emitted, snap, pool, served, doom>>

\* --------------------------------------------------------------------- load
\* go func() { adsErr = s.adRepo.Store(ctx, ads) }() with the in-memory AdRepository
StoreAds ==
    /\ stage = "Loading"
    /\ adsLoad = "pending"
    /\ adStore' = AdRepoStore(adStore, processedAds)
    /\ adsLoad' = "ok"
    /\ UNCHANGED <<stage, run, since, err, srcAds, srcCRM, adsFetch, crmFetch, requests,
                   adsData, crmData, processedAds, processedCRM, recordsFailed, crmLoad,
                   crmStore, metricsStore, emitted, trace, snap, pool, served, doom>>

\* go func() { crmErr = s.crmRepo.Store(ctx, opportunities) }() with the in-memory CRMRepository
StoreCRM ==
    /\ stage = "Loading"
    /\ crmLoad = "pending"
    /\ crmStore' = CRMRepoStore(crmStore, processedCRM)
    /\ crmLoad' = "ok"
    /\ UNCHANGED <<stage, run, since, err, srcAds, srcCRM, adsFetch, crmFetch, requests,
                   adsData, crmData, processedAds, processedCRM, recordsFailed, adsLoad,
                   adStore, metricsStore, emitted, trace, snap, pool, served, doom>>

\* loadData after wg.Wait(): the error it returns
loadData(adsRes, crmRes) ==
    IF adsRes = "err" THEN Wrap("failed to store ads data", <<"store">>)
    ELSE IF crmRes = "err" THEN Wrap("failed to store CRM data", <<"store">>)
    ELSE <<>>

\* A join that is not the program's: it goes on to calculateMetrics when only the CRM
\* branch failed.  C3 tells it from LoadJoin.
LoadJoinLenient ==
    /\ stage = "Loading"
    /\ adsLoad # "pending" /\ crmLoad # "pending"
    /\ LET e == loadData(adsLoad, "ok")
       IN IF e # <<>>
          THEN /\ stage' = "Failed"
               /\ err' = Wrap("failed to load data", e)
          ELSE /\ stage' = "Aggregating"
               /\ err' = <<>>
    /\ trace' = Append(trace, stage')
    /\ UNCHANGED <<run, since, srcAds, srcCRM, adsFetch, crmFetch, requests, adsData,
                   crmData, processedAds, processedCRM, recordsFailed, adsLoad, crmLoad,
                   adStore, crmStore, metricsStore, emitted, snap, pool, served, doom>>

\* A join that is not the program's: it returns the error of a branch as soon as that
\* branch has failed, the other still being out.  C30 tells it from LoadJoin.
LoadJoinEarly ==
    /\ stage = "Loading"
    /\ \/ adsLoad = "err"
       \/ crmLoad = "err"
       \/ adsLoad # "pending" /\ crmLoad # "pending"
    /\ LET e == loadData(adsLoad, crmLoad)
       IN IF e # <<>>
          THEN /\ stage' = "Failed"
               /\ err' = Wrap("failed to load data", e)
          ELSE /\ stage' = "Aggregating"
               /\ err' = <<>>
    /\ trace' = Append(trace, stage')
    /\ UNCHANGED <<run, since, srcAds, srcCRM, adsFetch, crmFetch, requests, adsData,
                   crmData, processedAds, processedCRM, recordsFailed, adsLoad, crmLoad,
                   adStore, crmStore, metricsStore, emitted, snap, pool, served, doom>>

\* wg.Wait() returns; RunETL fails on the error or goes on to calculateMetrics
LoadJoin ==
    /\ stage = "Loading"
    /\ adsLoad # "pending" /\ crmLoad # "pending"
    /\ LET e == loadData(adsLoad, crmLoad)
       IN IF e # <<>>
          THEN /\ stage' = "Failed"
               /\ err' = Wrap("failed to load data", e)
          ELSE /\ stage' = "Aggregating"
               /\ err' = <<>>
    /\ trace' = Append(trace, stage')
    /\ UNCHANGED <<run, since, srcAds, srcCRM, adsFetch, crmFetch, requests, adsData,
                   crmData, processedAds, processedCRM, recordsFailed, adsLoad, crmLoad,
                   adStore, crmStore, metricsStore, emitted, snap, pool, served, doom>>

\* ---------------------------------------------------------------- aggregate
\* calculateMetrics: the date range it reads
ScanFrom(s) == IF s # None THEN s ELSE AddDays(Now, -ScanBackDays)
ScanTo == AddDays(Now, ScanAheadDays)

\* calculateMetrics with the in-memory repositories: reads both stores over the range,
\* computes the metrics and stores them; RunETL returns nil
Aggregate ==
    /\ stage = "Aggregating"
    /\ LET ads == GetByDateRange(adStore, ScanFrom(since), ScanTo)
           opps == GetByDateRange(crmStore, ScanFrom(since), ScanTo)
       IN \E ms \in calculateMetricsWithWorkerPool(ads, opps, WorkerPoolSize) :
            /\ emitted' = ms
            /\ metricsStore' = MetricsRepoStore(metricsStore, ms)
    /\ stage' = "Done"
    /\ err' = <<>>
    /\ trace' = Append(trace, stage')
    /\ UNCHANGED <<run, since, srcAds, srcCRM, adsFetch, crmFetch, requests, adsData,
                   crmData, processedAds, processedCRM, recordsFailed, adsLoad, crmLoad,
                   adStore, crmStore, snap, pool, served, doom>>

\* ------------------------------------------------- failing repositories
\* ETLService holds its repositories as the interfaces domain.AdRepository,
\* domain.CRMRepository and domain.MetricsRepository, whose methods return an error.
\* The in-memory repositories never return one; the actions below are the branches
\* loadData and calculateMetrics take when a repository does, the failing call having
\* stored nothing.
StoreAdsFail ==
    /\ stage = "Loading"
    /\ adsLoad = "pending"
    /\ adsLoad' = "err"
    /\ UNCHANGED <<stage, run, since, err, srcAds, srcCRM, adsFetch, crmFetch, requests,
                   adsData, crmData, processedAds, processedCRM, recordsFailed, crmLoad,
                   adStore, crmStore, metricsStore, emitted, trace, snap, pool, served, doom>>

StoreCRMFail ==
    /\ stage = "Loading"
    /\ crmLoad = "pending"
    /\ crmLoad' = "err"
    /\ UNCHANGED <<stage, run, since, err, srcAds, srcCRM, adsFetch, crmFetch, requests,
                   adsData, crmData, processedAds, processedCRM, recordsFailed, adsLoad,
                   adStore, crmStore, metricsStore, emitted, trace, snap, pool, served, doom>>

\* calculateMetrics: the error it returns when the named repository call fails
calculateMetricsErr(call) ==
    CASE call = "adRepo.GetByDateRange" ->
           Wrap("failed to get ads data for metrics", <<"store">>)
      [] call = "crmRepo.GetByDateRange" ->
           Wrap("failed to get CRM data for metrics", <<"store">>)
      [] call = "metricsRepo.Store" -> Wrap("failed to store metrics", <<"store">>)

RepoCalls == {"adRepo.GetByDateRange", "crmRepo.GetByDateRange", "metricsRepo.Store"}

\* A failure path that is not the program's: it puts the ad and CRM stores back to
\* what they were when the run started.  C4 tells it from AggregateFail.
AggregateFailRollback(call) ==
    /\ stage = "Aggregating"
    /\ emitted' = <<>>
    /\ adStore' = snap.ad
    /\ crmStore' = snap.crm
    /\ stage' = "Failed"
    /\ err' = Wrap("failed to calculate metrics", calculateMetricsErr(call))
    /\ trace' = Append(trace, stage')
    /\ UNCHANGED <<run, since, srcAds, srcCRM, adsFetch, crmFetch, requests, adsData,
                   crmData, processedAds, processedCRM, recordsFailed, adsLoad, crmLoad,
                   metricsStore, snap, pool, served, doom>>

\* calculateMetrics returns the error of the repository call that failed; RunETL fails
AggregateFail(call) ==
    /\ stage = "Aggregating"
    /\ LET ads == GetByDateRange(adStore, ScanFrom(since), ScanTo)
           opps == GetByDateRange(crmStore, ScanFrom(since), ScanTo)
       IN IF call = "metricsRepo.Store"
          THEN emitted' \in calculateMetricsWithWorkerPool(ads, opps, WorkerPoolSize)
          ELSE emitted' = <<>>
    /\ stage' = "Failed"
    /\ err' = Wrap("failed to calculate metrics", calculateMetricsErr(call))
    /\ trace' = Append(trace, stage')
    /\ UNCHANGED <<run, since, srcAds, srcCRM, adsFetch, crmFetch, requests, adsData,
                   crmData, processedAds, processedCRM, recordsFailed, adsLoad, crmLoad,
                   adStore, crmStore, metricsStore, snap, pool, served, doom>>

Next ==
    \/ \E s \in Sinces : StartRun(s)
    \/ \E up \in Upstream : FetchAds(up)
    \/ \E up \in Upstream : FetchCRM(up)
    \/ ExtractJoin
    \/ Transform
    \/ StoreAds
    \/ StoreCRM
    \/ LoadJoin
    \/ Aggregate

Spec == Init /\ [][Next]_vars

\* RunETL over repositories that may fail; a run that failed is not followed by another
StartAfterSuccess(s) == stage # "Failed" /\ StartRun(s)

NextFaulty ==
    \/ \E s \in Sinces : StartAfterSuccess(s)
    \/ \E up \in Upstream : FetchAds(up)
    \/ \E up \in Upstream : FetchCRM(up)
    \/ ExtractJoin
    \/ Transform
    \/ StoreAds
    \/ StoreCRM
    \/ LoadJoin
    \/ Aggregate
    \/ StoreAdsFail
    \/ StoreCRMFail
    \/ \E call \in RepoCalls : AggregateFail(call)

SpecFaulty == Init /\ [][NextFaulty]_vars

\* --------------------------------------------------- a run after extraction
\* Run n at the point where extractData has returned the batches ads and crm and
\* RunETL is about to call transformData, the earlier runs having left the data maps
\* adS, crmS, mS and the failure counters failed.
ExtractedWith(n, ads, crm, s, adS, crmS, mS, failed) ==
    /\ stage = "Transforming"
    /\ run = n
    /\ since = s
    /\ err = <<>>
    /\ srcAds = ads
    /\ srcCRM = crm
    /\ adsFetch = [done |-> TRUE, data |-> Slice(ads), err |-> <<>>]
    /\ crmFetch = [done |-> TRUE, data |-> Slice(crm), err |-> <<>>]
    /\ requests = [ads |-> 1, crm |-> 1]
    /\ adsData = Slice(ads)
    /\ crmData = Slice(crm)
    /\ processedAds = <<>>
    /\ processedCRM = <<>>
    /\ recordsFailed = failed
    /\ adsLoad = "idle"
    /\ crmLoad = "idle"
    /\ adStore = adS
    /\ crmStore = crmS
    /\ metricsStore = mS
    /\ emitted = <<>>
    /\ trace = <<"Extracting", "Transforming">>
    /\ snap = [ad |-> adS, crm |-> crmS, metrics |-> mS, failed |-> failed]

ExtractedOver(n, ads, crm, s, adS, crmS, mS, failed) ==
    /\ ExtractedWith(n, ads, crm, s, adS, crmS, mS, failed)
    /\ pool = PoolIdle
    /\ served = NoCall
    /\ doom = None

\* the first run of the constructed service
Extracted(ads, crm, s) ==
    ExtractedOver(1, ads, crm, s, Empty, Empty, Empty, [ads |-> 0, crm |-> 0])

InitExtracted ==
    \E ads \in SeqsUpTo(RichAds, MaxAds), crm \in SeqsUpTo(RichOpps, MaxCRM), s \in Sinces :
        Extracted(ads, crm, s)

NextExtracted ==
    \/ Transform
    \/ StoreAds
    \/ StoreCRM
    \/ LoadJoin
    \/ Aggregate

\* RunETL from transformData on, over batches of every date and UTM shape
SpecExtracted == InitExtracted /\ [][NextExtracted]_vars

\* ------------------------------------------- a second run, upstream changed
\* What a completed first run without since leaves behind when the ads API served hist
\* and the CRM API an empty list: [ad, metrics, failed] (the metrics in any arrival order).
FirstRunOutcomes(hist) ==
    LET t == transformData(hist, <<>>, None)
        adS == AdRepoStore(Empty, t.ads)
        read == GetByDateRange(adS, ScanFrom(None), ScanTo)
    IN {[ad |-> adS, metrics |-> MetricsRepoStore(Empty, ms),
         failed |-> [ads |-> t.adsFailed, crm |-> 0]] :
           ms \in calculateMetricsWithWorkerPool(read, <<>>, WorkerPoolSize)}

\* the second run has extracted ads and crm; the first had extracted hist
InitRerun ==
    \E hist \in SeqsUpTo(AdSamples, MaxHist), ads \in SeqsUpTo(AdSamples, MaxAds),
       crm \in SeqsUpTo(OppSamples, MaxCRM), s \in Sinces :
        \E o \in FirstRunOutcomes(hist) :
            ExtractedOver(2, ads, crm, s, o.ad, Empty, o.metrics, o.failed)

SpecRerun == InitRerun /\ [][NextExtracted]_vars

\* ------------------------------------------- a run over old and future dates
\* "2024-01-01" (more than 365 days before Now), "2025-08-01" (more than 30 days after
\* Now), "2025-06-10" twice (inside both), the last one with empty UTM fields
DatedAds ==
    {RawAd(Day("Y-M-D", 2024, 1, 1), "d1", "search", 100, 50, Sale),
     RawAd(Day("Y-M-D", 2025, 8, 1), "d2", "social", 10, 5, Sale),
     RawAd(Day("Y-M-D", 2025, 6, 10), "d3", "display", 7, 3, Sale),
     RawAd(Day("Y-M-D", 2025, 6, 10), "d4", "search", 20, 8, NoUTM)}

InitDated ==
    \E ads \in SeqsUpTo(DatedAds, MaxAds), s \in Sinces : Extracted(ads, <<>>, s)

SpecDated == InitDated /\ [][NextExtracted]_vars

\* ============================================================== properties
IsPrefix(p, q) == Len(p) <= Len(q) /\ \A i \in 1..Len(p) : p[i] = q[i]
Range(q) == {q[i] : i \in 1..Len(q)}
Last(q) == q[Len(q)]
Front(q) == SubSeq(q, 1, Len(q) - 1)

StageOrder == <<"Extracting", "Transforming", "Loading", "Aggregating", "Done">>
WorkStages == <<"Extracting", "Transforming", "Loading", "Aggregating">>

\* C1: the stages a run has entered are an initial part of Extracting, Transforming,
\* Loading, Aggregating, Done, or such an initial part of the four working stages
\* followed by Failed; the run is in the stage it entered last; once Transforming has
\* begun both the ads fetch and the CRM fetch have returned, and once Aggregating has
\* begun both Load branches have.
C1_StagesInOrder ==
    /\ \/ IsPrefix(trace, StageOrder)
       \/ /\ Len(trace) >= 2
          /\ Last(trace) = "Failed"
          /\ IsPrefix(Front(trace), WorkStages)
    /\ trace # <<>> => stage = Last(trace)
    /\ "Transforming" \in Range(trace) => adsFetch.done /\ crmFetch.done
    /\ "Aggregating" \in Range(trace) => adsLoad \notin {"idle", "pending"} /\ crmLoad \notin {"idle", "pending"}

\* a run went through all four stages and ended in Done
C1_Witness == stage = "Done" /\ trace = StageOrder

\* C2: once extraction is over, if the ads fetch or the CRM fetch failed then the run
\* has failed, its error is "failed to extract data" wrapping the extraction error of a
\* source that did fail and that source's own error, and neither batch was handed to
\* RunETL; otherwise both batches were handed over as fetched.
C2_ExtractAllOrNothing ==
    (stage # "Extracting" /\ adsFetch.done /\ crmFetch.done) =>
        IF adsFetch.err # <<>> \/ crmFetch.err # <<>>
        THEN /\ stage = "Failed"
             /\ adsData = NilSlice /\ crmData = NilSlice
             /\ processedAds = <<>> /\ processedCRM = <<>>
             /\ Len(err) >= 3
             /\ err[1] = "failed to extract data"
             /\ \/ err[2] = "ads data extraction failed" /\ adsFetch.err # <<>>
                   /\ SubSeq(err, 3, Len(err)) = adsFetch.err
                \/ err[2] = "CRM data extraction failed" /\ crmFetch.err # <<>>
                   /\ SubSeq(err, 3, Len(err)) = crmFetch.err
        ELSE adsData = adsFetch.data /\ crmData = crmFetch.data

\* the ads fetch succeeded with a non-empty batch, the CRM fetch failed, the run failed
C2_Witness ==
    /\ stage = "Failed"
    /\ adsFetch.err = <<>> /\ adsFetch.data.items # <<>>
    /\ crmFetch.err # <<>>

StageError(st) ==
    CASE st = "Extracting" -> "failed to extract data"
      [] st = "Transforming" -> "failed to transform data"
      [] st = "Loading" -> "failed to load data"
      [] st = "Aggregating" -> "failed to calculate metrics"

\* C3: a run that failed returns one error chain whose outermost message names the stage
\* it was in when it failed, wrapping that stage's own error, and nothing of a later
\* stage was done: after a failed extraction nothing was transformed, counted or
\* stored, after a failed load no metric was computed or stored.  A run that has not
\* failed returns no error, and it is past a stage only if that stage did not fail.
C3_FailureStopsRun ==
    /\ stage = "Failed" =>
          /\ Len(trace) >= 2
          /\ Len(err) >= 2
          /\ err[1] = StageError(Last(Front(trace)))
          /\ Last(Front(trace)) = "Extracting" =>
                /\ processedAds = <<>> /\ processedCRM = <<>>
                /\ recordsFailed = snap.failed
                /\ adsLoad = "idle" /\ crmLoad = "idle"
                /\ adStore = snap.ad /\ crmStore = snap.crm
          /\ Last(Front(trace)) \in {"Extracting", "Transforming", "Loading"} =>
                /\ emitted = <<>>
                /\ metricsStore = snap.metrics
          /\ Last(Front(trace)) = "Aggregating" => metricsStore = snap.metrics
    /\ stage # "Failed" => err = <<>>
    /\ stage \in {"Transforming", "Loading", "Aggregating", "Done"} =>
          adsFetch.err = <<>> /\ crmFetch.err = <<>>
    /\ stage \in {"Aggregating", "Done"} => adsLoad = "ok" /\ crmLoad = "ok"

\* a run failed in Loading on the CRM branch after the ads branch had stored records
C3_Witness ==
    /\ stage = "Failed"
    /\ err[1] = "failed to load data"
    /\ adsLoad = "ok" /\ crmLoad = "err"
    /\ processedAds # <<>>

\* the records of recs whose day key is k, in order
AdsOfDay(recs, k) == SelectSeq(recs, LAMBDA r : DateKey(r.date) = k)
OppsOfDay(recs, k) == SelectSeq(recs, LAMBDA r : DateKey(r.created_at) = k)
Held(data, k) == IF k \in DOMAIN data THEN data[k] ELSE <<>>

\* the store holds, day by day, what it held at the start of the run followed by the
\* run's normalized records of that day
AdsLoaded == \A k \in DOMAIN adStore \cup DOMAIN snap.ad \cup {DateKey(r.date) : r \in Range(processedAds)} :
    Held(adStore, k) = Held(snap.ad, k) \o AdsOfDay(processedAds, k)
CRMLoaded == \A k \in DOMAIN crmStore \cup DOMAIN snap.crm \cup {DateKey(r.created_at) : r \in Range(processedCRM)} :
    Held(crmStore, k) = Held(snap.crm, k) \o OppsOfDay(processedCRM, k)

\* C4: when a run has failed in Aggregating, every ad and CRM record Loading appended in
\* that run is still in its day partition, after what the partition held before; when
\* it has failed in Loading, the records of the branch that did store are still there.
C4_NoRollback ==
    /\ (stage = "Failed" /\ err[1] = "failed to calculate metrics") => AdsLoaded /\ CRMLoaded
    /\ (stage = "Failed" /\ err[1] = "failed to load data") =>
          /\ adsLoad = "ok" => AdsLoaded
          /\ crmLoad = "ok" => CRMLoaded

\* a run that had loaded ad and CRM records failed in Aggregating
C4_Witness ==
    /\ stage = "Failed"
    /\ err[1] = "failed to calculate metrics"
    /\ processedAds # <<>> /\ processedCRM # <<>>

\* the stores held, when the run started, exactly one load of the records this run
\* normalized: an earlier run had the same inputs
SameInputsAsBefore ==
    /\ run >= 2
    /\ \A k \in DOMAIN snap.ad \cup {DateKey(r.date) : r \in Range(processedAds)} :
          Held(snap.ad, k) = AdsOfDay(processedAds, k)
    /\ \A k \in DOMAIN snap.crm \cup {DateKey(r.created_at) : r \in Range(processedCRM)} :
          Held(snap.crm, k) = OppsOfDay(processedCRM, k)

\* C5: when a run with the same inputs as an earlier one is done, the ad, CRM and
\* metrics stores hold what they held when it started.
C5_Idempotent ==
    (stage = "Done" /\ SameInputsAsBefore) =>
        adStore = snap.ad /\ crmStore = snap.crm /\ metricsStore = snap.metrics

PartitionsKept(old, new) ==
    \A k \in DOMAIN old : k \in DOMAIN new /\ IsPrefix(old[k], new[k])

C8_RetriedUpToMaxRetries ==
    /\ (stage = "Failed" /\ adsFetch.err = <<"failed to fetch ads data", "transport">>) =>
          requests.ads = MaxRetries
    /\ (stage = "Failed" /\ crmFetch.err = <<"failed to fetch CRM data", "transport">>) =>
          requests.crm = MaxRetries

\* the raw records transform keeps: date accepted, and not before since when since is set
KeptAds ==
    SelectSeq(adsData.items,
              LAMBDA r : /\ ParseAdDate(r.date).ok
                         /\ (since = None \/ ~Before(ParseAdDate(r.date).t, since)))
KeptCRM ==
    SelectSeq(crmData.items,
              LAMBDA r : /\ ParseCRMDate(r.created_at).ok
                         /\ (since = None \/ ~Before(ParseCRMDate(r.created_at).t, since)))

\* the stored records of one UTM key that are not dated before since, as
\* <<day key, position>> pairs
AdEntries(utm) ==
    UNION {{<<k, i>> : i \in {j \in 1..Len(adStore[k]) :
                                /\ UTMKeyOf(adStore[k][j]) = utm
                                /\ ~Before(adStore[k][j].date, since)}} : k \in DOMAIN adStore}
WonEntries(utm) ==
    UNION {{<<k, i>> : i \in {j \in 1..Len(crmStore[k]) :
                                /\ UTMKeyOf(crmStore[k][j]) = utm
                                /\ crmStore[k][j].stage = "closed_won"
                                /\ ~Before(crmStore[k][j].created_at, since)}} : k \in DOMAIN crmStore}

RECURSIVE SumClicks(_)
SumClicks(es) ==
    IF es = {} THEN 0
    ELSE LET e == CHOOSE x \in es : TRUE
         IN adStore[e[1]][e[2]].clicks + SumClicks(es \ {e})

RECURSIVE SumAmount(_)
SumAmount(es) ==
    IF es = {} THEN 0
    ELSE LET e == CHOOSE x \in es : TRUE
         IN crmStore[e[1]][e[2]].amount + SumAmount(es \ {e})

\* C9: what transform emitted is, in input order, the normalization of exactly the raw
\* records whose date a layout accepts and that are not before since; and when since is
\* set, the clicks and the revenue of every bucket the run emitted are the totals of the
\* stored records of the bucket's key that are not dated before since, so that no
\* record dated before since is in a bucket.
C9_SinceCutoff ==
    /\ "Loading" \in Range(trace) =>
          /\ processedAds = [i \in 1..Len(KeptAds) |->
                                NormalizedAd(KeptAds[i], ParseAdDate(KeptAds[i].date).t)]
          /\ processedCRM = [i \in 1..Len(KeptCRM) |->
                                NormalizedOpp(KeptCRM[i], ParseCRMDate(KeptCRM[i].created_at).t)]
    /\ (stage = "Done" /\ since # None) =>
          \A i \in 1..Len(emitted) :
              /\ emitted[i].clicks = SumClicks(AdEntries(UTMKeyOf(emitted[i])))
              /\ emitted[i].revenue = SumAmount(WonEntries(UTMKeyOf(emitted[i])))

AdsUnparseable ==
    Cardinality({i \in 1..Len(adsData.items) : ~ParseAdDate(adsData.items[i].date).ok})
CRMUnparseable ==
    Cardinality({i \in 1..Len(crmData.items) : ~ParseCRMDate(crmData.items[i].created_at).ok})
AdsSinceDropped ==
    Cardinality({i \in 1..Len(adsData.items) :
                    /\ ParseAdDate(adsData.items[i].date).ok
                    /\ since # None
                    /\ Before(ParseAdDate(adsData.items[i].date).t, since)})
CRMSinceDropped ==
    Cardinality({i \in 1..Len(crmData.items) :
                    /\ ParseCRMDate(crmData.items[i].created_at).ok
                    /\ since # None
                    /\ Before(ParseCRMDate(crmData.items[i].created_at).t, since)})

\* C10: once transform has run, each source's date_parse counter has grown by the
\* number of its raw records whose date no layout accepts (and by nothing for the records
\* the since cutoff dropped), the raw count of each batch is emitted + date_parse
\* failures + since-dropped, and the run went on to Loading; before transform the
\* counters are what they were when the run started.
C10_FailuresCounted ==
    /\ "Loading" \in Range(trace) =>
          /\ recordsFailed.ads - snap.failed.ads = AdsUnparseable
          /\ recordsFailed.crm - snap.failed.crm = CRMUnparseable
          /\ Len(adsData.items) =
                Len(processedAds) + (recordsFailed.ads - snap.failed.ads) + AdsSinceDropped
          /\ Len(crmData.items) =
                Len(processedCRM) + (recordsFailed.crm - snap.failed.crm) + CRMSinceDropped
    /\ "Loading" \notin Range(trace) => recordsFailed = snap.failed
    /\ ("Transforming" \in Range(trace) /\ stage # "Transforming") => trace[3] = "Loading"

\* transform has run on an ads batch with one unparseable record and one record before
\* since, and on an unparseable CRM record; the run is loading
C10_Witness ==
    /\ stage = "Loading"
    /\ AdsUnparseable = 1 /\ AdsSinceDropped = 1
    /\ CRMUnparseable = 1
    /\ recordsFailed.ads = snap.failed.ads + 1

NonEmptyUTM(r) == r.utm_campaign # "" /\ r.utm_source # "" /\ r.utm_medium # ""
AllOf(data) == UNION {Range(data[k]) : k \in DOMAIN data}
Defaulted(v) == IF v = "" THEN "unknown" ELSE v

\* C11: every normalized, stored and emitted record has three non-empty UTM fields, and
\* each UTM field of a normalized record is "unknown" where the raw field was empty
\* and the raw field itself, character for character, where it was not.
C11_UTMNeverEmpty ==
    /\ \A r \in Range(processedAds) \cup Range(processedCRM) \cup Range(emitted) : NonEmptyUTM(r)
    /\ \A r \in AllOf(adStore) \cup AllOf(crmStore) \cup AllOf(metricsStore) : NonEmptyUTM(r)
    /\ "Loading" \in Range(trace) =>
          LET rawAds == KeptAds
              rawCRM == KeptCRM
          IN /\ Len(processedAds) = Len(rawAds)
             /\ Len(processedCRM) = Len(rawCRM)
             /\ \A i \in 1..Len(rawAds) :
                   /\ processedAds[i].utm_campaign = Defaulted(rawAds[i].utm_campaign)
                   /\ processedAds[i].utm_source = Defaulted(rawAds[i].utm_source)
                   /\ processedAds[i].utm_medium = Defaulted(rawAds[i].utm_medium)
             /\ \A i \in 1..Len(rawCRM) :
                   /\ processedCRM[i].utm_campaign = Defaulted(rawCRM[i].utm_campaign)
                   /\ processedCRM[i].utm_source = Defaulted(rawCRM[i].utm_source)
                   /\ processedCRM[i].utm_medium = Defaulted(rawCRM[i].utm_medium)

\* a run is done that normalized an ad with campaign " Sale ", an empty source and
\* medium "CPC", and emitted a bucket for the key (" Sale ", "unknown", "CPC")
C11_Witness ==
    /\ stage = "Done"
    /\ \E r \in Range(adsData.items) : r.utm_campaign = " Sale " /\ r.utm_source = ""
    /\ \E i \in 1..Len(emitted) :
          /\ emitted[i].utm_campaign = " Sale "
          /\ emitted[i].utm_source = "unknown"
          /\ emitted[i].utm_medium = "CPC"

\* the priority orders C12 states
AdLayoutOrder == <<"2006-01-02", "2006/01/02", "01/02/2006", "02/01/2006", "RFC3339">>
CRMLayoutOrder ==
    <<"RFC3339", "2006-01-02 15:04:05", "2006-01-02", "2006/01/02 15:04:05", "2006/01/02">>
Accepting(order, s) == {j \in 1..Len(order) : Parse(order[j], s).ok}
FirstAccepted(order, s) ==
    LET acc == Accepting(order, s)
    IN Parse(order[CHOOSE j \in acc : \A k \in acc : j <= k], s).t
Survives(order, s) ==
    /\ Accepting(order, s) # {}
    /\ (since = None \/ ~Before(FirstAccepted(order, s), since))

\* C12: once transform has run, the timestamps of the normalized records are, in input
\* order, what the first accepting layout of the stated priority order gives for each raw
\* date that some layout accepts (and that since does not cut off), the date_parse
\* counter has grown by the number of raw dates no layout accepts, and the ad date
\* "01/02/2025" is 2 January 2025.
C12_FirstLayoutWins ==
    "Loading" \in Range(trace) =>
        LET okAds == SelectSeq(adsData.items, LAMBDA r : Survives(AdLayoutOrder, r.date))
            okCRM == SelectSeq(crmData.items, LAMBDA r : Survives(CRMLayoutOrder, r.created_at))
        IN /\ Len(processedAds) = Len(okAds)
           /\ Len(processedCRM) = Len(okCRM)
           /\ \A i \in 1..Len(okAds) :
                 /\ processedAds[i].date = FirstAccepted(AdLayoutOrder, okAds[i].date)
                 /\ okAds[i].date = Day("N/N/Y", 1, 2, 2025) =>
                       processedAds[i].date = TimeOf(2025, 1, 2, 0, 0)
           /\ \A i \in 1..Len(okCRM) :
                 processedCRM[i].created_at = FirstAccepted(CRMLayoutOrder, okCRM[i].created_at)
           /\ recordsFailed.ads - snap.failed.ads =
                 Cardinality({i \in 1..Len(adsData.items) :
                                 Accepting(AdLayoutOrder, adsData.items[i].date) = {}})
           /\ recordsFailed.crm - snap.failed.crm =
                 Cardinality({i \in 1..Len(crmData.items) :
                                 Accepting(CRMLayoutOrder, crmData.items[i].created_at) = {}})

\* transform has normalized the ad dated "01/02/2025" and counted one ad date that no
\* layout accepts
C12_Witness ==
    /\ stage = "Loading"
    /\ \E i \in 1..Len(processedAds) : processedAds[i].campaign_id = "e1"
    /\ recordsFailed.ads = 1

\* the stored ad records the run reads: those in the day partitions from the day of
\* since (or of now less 365 days) to the day of now plus 30 days
AdsInRange ==
    UNION {Range(adStore[k]) : k \in {d \in DOMAIN adStore :
                                         DateKey(ScanFrom(since)) <= d /\ d <= DateKey(ScanTo)}}

\* ---------------------------------------- calculateMetricsWithWorkerPool alone
\* normalized records as GetByDateRange hands them to calculateMetricsWithWorkerPool
Unknown == <<"unknown", "unknown", "unknown">>
Brand == <<"brand", "bing", "cpc">>
Promo == <<"promo", "meta", "social">>
ProcessedAd(date, id, channel, clicks, cost, utm) ==
    [date |-> date, campaign_id |-> id, channel |-> channel, clicks |-> clicks,
     impressions |-> clicks * 10, cost |-> cost,
     utm_campaign |-> utm[1], utm_source |-> utm[2], utm_medium |-> utm[3]]
ProcessedOpp(id, st, amount, utm) ==
    [opportunity_id |-> id, stage |-> st, amount |-> amount,
     created_at |-> TimeOf(2025, 1, 2, 0, 0),
     utm_campaign |-> utm[1], utm_source |-> utm[2], utm_medium |-> utm[3]]

\* two records of one key on one day, one of that key on a later day with no clicks and
\* no cost, one of another key, and two dated "0001-01-01", the zero time.Time, one
\* of them with a cost and no clicks
CalcAds ==
    {ProcessedAd(TimeOf(2025, 1, 1, 0, 0), "c1", "search", 100, 50, Sale),
     ProcessedAd(TimeOf(2025, 1, 1, 0, 0), "c2", "social", 10, 5, Sale),
     ProcessedAd(TimeOf(2025, 6, 1, 0, 0), "c3", "display", 0, 0, Sale),
     ProcessedAd(TimeOf(2025, 6, 1, 0, 0), "c4", "social", 20, 8, Unknown),
     ProcessedAd(ZeroTime, "c5", "email", 0, 2, Sale),
     ProcessedAd(ZeroTime, "c6", "search", 3, 1, Sale)}

\* one opportunity per stage for the key of the ads, and a lead of a key no ad has
CalcOpps ==
    {ProcessedOpp("q1", "lead", 0, Sale),
     ProcessedOpp("q2", "opportunity", 0, Sale),
     ProcessedOpp("q3", "closed_won", 200, Sale),
     ProcessedOpp("q4", "closed_lost", 999, Sale),
     ProcessedOpp("q5", "lead", 0, Brand)}

\* the variables of RunETL, which a call of calculateMetricsWithWorkerPool leaves alone
pipeline == <<stage, run, since, err, srcAds, srcCRM, adsFetch, crmFetch, requests,
              adsData, crmData, processedAds, processedCRM, recordsFailed, adsLoad,
              crmLoad, adStore, crmStore, metricsStore, emitted, trace, snap>>

InitCalc ==
    /\ srcAds = <<>>
    /\ srcCRM = <<>>
    /\ Constructed
    /\ served = NoCall
    /\ doom = None
    /\ \E ads \in SeqsUpTo(CalcAds, MaxCalcAds), opps \in SeqsUpTo(CalcOpps, MaxCalcOpps),
          n \in 1..MaxWorkers :
            pool = [phase |-> "called", ads |-> ads, opps |-> opps, size |-> n,
                    metrics |-> <<>>]

\* the call returns one of the slices it can return
CallWorkerPool ==
    /\ pool.phase = "called"
    /\ \E ms \in calculateMetricsWithWorkerPool(pool.ads, pool.opps, pool.size) :
           pool' = [pool EXCEPT !.phase = "returned", !.metrics = ms]
    /\ UNCHANGED <<pipeline, served, doom>>

SpecCalc == InitCalc /\ [][CallWorkerPool]_vars

\* ------------------------------ calculateMetricsWithWorkerPool, goroutine by goroutine
\* two ad records of one key and one of each of two others
PoolAds ==
    {ProcessedAd(TimeOf(2025, 1, 1, 0, 0), "c1", "search", 100, 50, Sale),
     ProcessedAd(TimeOf(2025, 6, 1, 0, 0), "c3", "display", 0, 0, Sale),
     ProcessedAd(TimeOf(2025, 6, 1, 0, 0), "c4", "social", 20, 8, Unknown),
     ProcessedAd(TimeOf(2025, 6, 1, 0, 0), "c7", "social", 30, 9, Promo)}

\* a closed_won of a key of the ads and a lead of a key no ad has
PoolOpps ==
    <<ProcessedOpp("q3", "closed_won", 200, Sale), ProcessedOpp("q5", "lead", 0, Brand)>>

\* A capacity that is not the program's: one less than the number of groups.  C32 tells
\* it from Cap.
CapShort == Cardinality(KeysOf(pool.ads)) - 1

\* make(chan domain.UTMKey, len(adsByUTM)), make(chan domain.BusinessMetrics, len(adsByUTM))
Cap == Cardinality(KeysOf(pool.ads))

\* The call after grouping, channels made and goroutines started: the producer has
\* every key of adsByUTM left to send (todo), each worker is at `range jobs`, the
\* closer at wg.Wait(), the caller at `range results`.  computed lists the keys the
\* workers have passed to calculateMetricForUTM.
InitPool ==
    /\ srcAds = <<>>
    /\ srcCRM = <<>>
    /\ Constructed
    /\ served = NoCall
    /\ doom = None
    /\ \E ads \in SeqsUpTo(PoolAds, MaxPoolAds), n \in 1..MaxWorkers :
          pool = [phase |-> "running", ads |-> ads, opps |-> PoolOpps, size |-> n,
                  todo |-> KeysOf(ads), jobs |-> <<>>, jobsClosed |-> FALSE,
                  workers |-> [w \in 1..n |-> [pc |-> "recv", held |-> None]],
                  results |-> <<>>, resultsClosed |-> FALSE,
                  computed |-> <<>>, metrics |-> <<>>]

Running == pool.phase = "running"

\* for utm := range adsByUTM { jobs <- utm }: one send, of any key not yet sent
SendJob ==
    /\ Running
    /\ Len(pool.jobs) < Cap
    /\ \E utm \in pool.todo :
          pool' = [pool EXCEPT !.todo = @ \ {utm}, !.jobs = Append(@, utm)]
    /\ UNCHANGED <<pipeline, served, doom>>

\* A producer that is not the program's: it may close jobs with keys left to send,
\* and sends none of them afterwards.  C14 tells it from CloseJobs.
CloseJobsEarly ==
    /\ Running
    /\ ~pool.jobsClosed
    /\ pool' = [pool EXCEPT !.jobsClosed = TRUE, !.todo = {}]
    /\ UNCHANGED <<pipeline, served, doom>>

\* defer close(jobs), once the producer's loop is over
CloseJobs ==
    /\ Running
    /\ pool.todo = {}
    /\ ~pool.jobsClosed
    /\ pool' = [pool EXCEPT !.jobsClosed = TRUE]
    /\ UNCHANGED <<pipeline, served, doom>>

\* worker w receives a key from jobs and computes its bucket; a nil is not sent
WorkerRecv(w) ==
    /\ Running
    /\ pool.workers[w].pc = "recv"
    /\ pool.jobs # <<>>
    /\ LET utm == Head(pool.jobs)
           metric == calculateMetricForUTM(GroupOf(pool.ads, utm), GroupOf(pool.opps, utm), utm)
       IN pool' = [pool EXCEPT !.jobs = Tail(@),
                               !.computed = Append(@, utm),
                               !.workers[w] = IF metric = None THEN @
                                              ELSE [pc |-> "send", held |-> metric]]
    /\ UNCHANGED <<pipeline, served, doom>>

\* results <- *metric
WorkerSend(w) ==
    /\ Running
    /\ pool.workers[w].pc = "send"
    /\ Len(pool.results) < Cap
    /\ ~pool.resultsClosed
    /\ pool' = [pool EXCEPT !.results = Append(@, pool.workers[w].held),
                            !.workers[w] = [pc |-> "recv", held |-> None]]
    /\ UNCHANGED <<pipeline, served, doom>>

\* `range jobs` ends for worker w: jobs is closed and empty
WorkerExit(w) ==
    /\ Running
    /\ pool.workers[w].pc = "recv"
    /\ pool.jobs = <<>>
    /\ pool.jobsClosed
    /\ pool' = [pool EXCEPT !.workers[w].pc = "done"]
    /\ UNCHANGED <<pipeline, served, doom>>

\* A closer that is not the program's: it closes results once jobs is closed, without
\* waiting for the workers.  C20 tells it from CloseResults.
CloseResultsEarly ==
    /\ Running
    /\ pool.jobsClosed
    /\ ~pool.resultsClosed
    /\ pool' = [pool EXCEPT !.resultsClosed = TRUE]
    /\ UNCHANGED <<pipeline, served, doom>>

\* wg.Wait(); close(results)
CloseResults ==
    /\ Running
    /\ \A w \in DOMAIN pool.workers : pool.workers[w].pc = "done"
    /\ ~pool.resultsClosed
    /\ pool' = [pool EXCEPT !.resultsClosed = TRUE]
    /\ UNCHANGED <<pipeline, served, doom>>

\* for metric := range results { metrics = append(metrics, metric) }
Collect ==
    /\ Running
    /\ pool.results # <<>>
    /\ pool' = [pool EXCEPT !.results = Tail(@), !.metrics = Append(@, Head(pool.results))]
    /\ UNCHANGED <<pipeline, served, doom>>

\* A caller that is not the program's: it stops reading when it finds results empty,
\* closed or not.  C31 tells it from Return.
ReturnWhenEmpty ==
    /\ Running
    /\ pool.results = <<>>
    /\ pool' = [pool EXCEPT !.phase = "returned"]
    /\ UNCHANGED <<pipeline, served, doom>>

\* `range results` ends: results is closed and empty; return metrics
Return ==
    /\ Running
    /\ pool.results = <<>>
    /\ pool.resultsClosed
    /\ pool' = [pool EXCEPT !.phase = "returned"]
    /\ UNCHANGED <<pipeline, served, doom>>

NextPool ==
    \/ SendJob
    \/ CloseJobs
    \/ \E w \in DOMAIN pool.workers : WorkerRecv(w)
    \/ \E w \in DOMAIN pool.workers : WorkerSend(w)
    \/ \E w \in DOMAIN pool.workers : WorkerExit(w)
    \/ CloseResults
    \/ Collect
    \/ Return

SpecPool == InitPool /\ [][NextPool]_vars

\* the goroutines are scheduled: a step that can be taken is not put off forever
SpecPoolFair == SpecPool /\ WF_vars(NextPool)

\* ------------------------------------- AdRepository.Store and GetByDateRange alone
\* normalized ad records with a time of day: 2025-06-01T00:00Z, 2025-06-02T05:00Z,
\* 2025-06-03T02:00Z and 2025-06-02T01:00+05:00 (the instant 2025-06-01T20:00Z)
ScanAds ==
    {ProcessedAd(TimeOf(2025, 6, 1, 0, 0), "c1", "search", 100, 50, Sale),
     ProcessedAd(TimeOf(2025, 6, 2, 5, 0), "c2", "social", 10, 5, Sale),
     ProcessedAd(TimeOf(2025, 6, 3, 2, 0), "c3", "display", 1, 1, Sale),
     ProcessedAd(TimeOf(2025, 6, 2, 1, 5), "c4", "social", 20, 8, Unknown)}

\* the ends of a range: the timestamp of a record, or 2025-06-01T18:00Z,
\* 2025-06-03T06:00Z, 2025-06-05T00:00Z
ScanEnds ==
    {r.date : r \in ScanAds}
        \cup {TimeOf(2025, 6, 1, 18, 0), TimeOf(2025, 6, 3, 6, 0), TimeOf(2025, 6, 5, 0, 0)}

\* a new repository and a batch to store in it
InitScan ==
    /\ srcAds = <<>>
    /\ srcCRM = <<>>
    /\ Constructed
    /\ pool = PoolIdle
    /\ doom = None
    /\ \E batch \in SeqsUpTo(ScanAds, MaxScanAds) :
          served = [op |-> "new", data |-> Empty, batch |-> batch,
                    from |-> None, to |-> None, result |-> <<>>]

\* adRepo.Store(ctx, batch)
RepoStore ==
    /\ served.op = "new"
    /\ served' = [served EXCEPT !.op = "stored", !.data = AdRepoStore(@, served.batch)]
    /\ UNCHANGED <<pipeline, pool, doom>>

\* adRepo.GetByDateRange(ctx, from, to)
RepoScan(from, to) ==
    /\ served.op = "stored"
    /\ served' = [served EXCEPT !.op = "scanned", !.from = from, !.to = to,
                                !.result = GetByDateRange(served.data, from, to)]
    /\ UNCHANGED <<pipeline, pool, doom>>

NextScan ==
    \/ RepoStore
    \/ \E from, to \in ScanEnds : RepoScan(from, to)

SpecScan == InitScan /\ [][NextScan]_vars

\* ------------------------------------------------ MetricsRepository.GetByFilter
\* limit := 100, the default of GetByFilter and of parseMetricsParams
DefaultLimit == 100
\* the range GetByFilter reads when the filter has no From: 365 days back from now
FilterBackDays == 365

\* the int type: a + b wraps around
MaxInt == 2 ^ (IntBits - 1) - 1
MinInt == -(2 ^ (IntBits - 1))
WrapAdd(a, b) == ((a + b - MinInt) % (2 ^ IntBits)) + MinInt

FilterFields == {"channel", "campaign_id", "utm_campaign", "utm_source", "utm_medium"}

\* A test that is not the program's: utm_medium is not looked at.  C24 tells it from
\* matchesFilter.
matchesFilterNoMedium(metric, filter) ==
    /\ ~(filter.channel # "" /\ metric.channel # filter.channel)
    /\ ~(filter.campaign_id # "" /\ metric.campaign_id # filter.campaign_id)
    /\ ~(filter.utm_campaign # "" /\ metric.utm_campaign # filter.utm_campaign)
    /\ ~(filter.utm_source # "" /\ metric.utm_source # filter.utm_source)

\* MetricsRepository.matchesFilter
matchesFilter(metric, filter) ==
    /\ ~(filter.channel # "" /\ metric.channel # filter.channel)
    /\ ~(filter.campaign_id # "" /\ metric.campaign_id # filter.campaign_id)
    /\ ~(filter.utm_campaign # "" /\ metric.utm_campaign # filter.utm_campaign)
    /\ ~(filter.utm_source # "" /\ metric.utm_source # filter.utm_source)
    /\ ~(filter.utm_medium # "" /\ metric.utm_medium # filter.utm_medium)

\* GetByFilter up to its filter loop: allMetrics and filteredMetrics
Collect_(data, filter) ==
    GetByDateRange(data,
                   IF filter.from = None THEN AddDays(Now, -FilterBackDays) ELSE filter.from,
                   IF filter.to = None THEN Now ELSE filter.to)
ApplyFilter(all, filter) == SelectSeq(all, LAMBDA m : matchesFilter(m, filter))

\* sort.Slice(filteredMetrics, by Date.Before): not a stable sort, so any order of q in
\* which no record comes before one of an earlier date: the records of the earliest
\* date in any order among themselves, then the others likewise.
Arrangements(g) ==
    IF \A i \in DOMAIN g : g[i] = g[1] THEN {g}
    ELSE {[i \in DOMAIN g |-> g[p[i]]] : p \in Orderings(DOMAIN g)}
RECURSIVE SortSlice(_)
SortSlice(q) ==
    IF q = <<>> THEN {<<>>}
    ELSE LET m == CHOOSE i \in DOMAIN q : \A j \in DOMAIN q : ~Before(q[j].date, q[i].date)
             first == SelectSeq(q, LAMBDA r : ~Before(q[m].date, r.date))
             rest == SelectSeq(q, LAMBDA r : Before(q[m].date, r.date))
         IN {g \o t : g \in Arrangements(first), t \in SortSlice(rest)}

\* GetByFilter from "Apply pagination" on, over the sorted list
Paginate(sorted, filter) ==
    LET limit == IF filter.limit > 0 THEN filter.limit ELSE DefaultLimit
        offset == IF filter.offset > 0 THEN filter.offset ELSE 0
        total == Len(sorted)
        start == IF offset > total THEN total ELSE offset
        sum == WrapAdd(offset, limit)
        end == IF sum > total THEN total ELSE sum
    IN [data |-> IF start < end THEN SubSeq(sorted, start + 1, end) ELSE <<>>,
        total |-> total, limit |-> limit, offset |-> offset, has_more |-> end < total]

\* MetricsRepository.GetByFilter: the responses it can give
GetByFilter(data, filter) ==
    {Paginate(sorted, filter) : sorted \in SortSlice(ApplyFilter(Collect_(data, filter), filter))}

\* a bucket as calculateMetricForUTM makes it of one ad record
BucketOf(ad) == calculateMetricForUTM(<<ad>>, <<>>, UTMKeyOf(ad))

\* buckets dated 2025-06-01 (two), 2025-06-02T23:00Z, 2025-06-03T02:00+05:00 (the
\* instant 2025-06-02T21:00Z, earlier than the one before) and 2025-05-20
Buckets ==
    {BucketOf(ProcessedAd(TimeOf(2025, 6, 1, 0, 0), "c1", "search", 100, 50, Sale)),
     BucketOf(ProcessedAd(TimeOf(2025, 6, 1, 0, 0), "c2", "social", 10, 5, Sale)),
     BucketOf(ProcessedAd(TimeOf(2025, 6, 2, 23, 0), "c3", "search", 1, 1, Unknown)),
     BucketOf(ProcessedAd(TimeOf(2025, 6, 3, 2, 5), "c4", "search", 20, 8, Sale)),
     BucketOf(ProcessedAd(TimeOf(2025, 5, 20, 0, 0), "c1", "display", 30, 9, Promo))}

\* what a filter asks of the fields: nothing, a channel, a campaign, a UTM campaign, a
\* UTM triple no bucket has, a channel with a UTM source
Criteria ==
    {<<"", "", "", "", "">>, <<"search", "", "", "", "">>, <<"", "c1", "", "", "">>,
     <<"", "", "sale", "", "">>, <<"", "", "sale", "google", "email">>,
     <<"search", "", "", "google", "">>}
Ranges == {<<None, None>>, <<TimeOf(2025, 6, 1, 0, 0), TimeOf(2025, 6, 3, 0, 0)>>}
Limits == {-1, 0, 1, 2, MaxInt}
Offsets == {-1, 0, 1, MaxInt}
MetricsFilter(c, r, limit, offset) ==
    [from |-> r[1], to |-> r[2], channel |-> c[1], campaign_id |-> c[2],
     utm_campaign |-> c[3], utm_source |-> c[4], utm_medium |-> c[5],
     limit |-> limit, offset |-> offset]

\* a repository holding some buckets and a filter to ask it with
InitQuery ==
    /\ srcAds = <<>>
    /\ srcCRM = <<>>
    /\ Constructed
    /\ pool = PoolIdle
    /\ doom = None
    /\ \E ms \in SeqsUpTo(Buckets, MaxBuckets), c \in Criteria, r \in Ranges,
          limit \in Limits, offset \in Offsets :
            served = [op |-> "asked", data |-> MetricsRepoStore(Empty, ms),
                      filter |-> MetricsFilter(c, r, limit, offset),
                      all |-> <<>>, filtered |-> <<>>, response |-> None]

\* metricsRepo.GetByFilter(ctx, filter); all and filtered keep its two intermediate lists
Query ==
    /\ served.op = "asked"
    /\ \E resp \in GetByFilter(served.data, served.filter) :
          served' = [served EXCEPT
                        !.op = "answered",
                        !.all = Collect_(served.data, served.filter),
                        !.filtered = ApplyFilter(Collect_(served.data, served.filter),
                                                 served.filter),
                        !.response = resp]
    /\ UNCHANGED <<pipeline, pool, doom>>

SpecQuery == InitQuery /\ [][Query]_vars

\* ------------------------------------------- MetricsService.GetMetricsSummary
\* from := time.Now().AddDate(0, 0, -60)
SummaryBackDays == 60
\* the stored records may outnumber the default limit by MaxOver
MaxOver == 1

\* total += metric.field over response.Data[lo..hi], added up by halves
RECURSIVE SummaryTotal(_, _, _, _)
SummaryTotal(data, lo, hi, field) ==
    IF lo > hi THEN 0
    ELSE IF lo = hi THEN data[lo][field]
    ELSE LET mid == (lo + hi) \div 2
         IN SummaryTotal(data, lo, mid, field) + SummaryTotal(data, mid + 1, hi, field)

\* the summary made of one response of GetByFilter
SummaryOf(from, to, response) ==
    LET total(field) == SummaryTotal(response.data, 1, Len(response.data), field)
        channels == {response.data[i].channel : i \in DOMAIN response.data}
        campaigns == {response.data[i].campaign_id : i \in DOMAIN response.data}
    IN [period |-> [from |-> DateKey(from), to |-> DateKey(to)],
        totals |-> [clicks |-> total("clicks"), impressions |-> total("impressions"),
                    cost |-> total("cost"), leads |-> total("leads"),
                    opportunities |-> total("opportunities"),
                    closed_won |-> total("closed_won"), revenue |-> total("revenue")],
        averages |-> [cpc |-> Guarded(total("clicks"), total("cost"), total("clicks")),
                      cpa |-> Guarded(total("leads"), total("cost"), total("leads")),
                      cvr_lead_to_opp |-> Guarded(total("leads"), total("opportunities"),
                                                  total("leads")),
                      cvr_opp_to_won |-> Guarded(total("opportunities"),
                                                 total("closed_won"),
                                                 total("opportunities")),
                      roas |-> Guarded(total("cost"), total("revenue"), total("cost"))],
        counts |-> [unique_channels |-> Cardinality(channels),
                    unique_campaigns |-> Cardinality(campaigns),
                    metric_records |-> Len(response.data)]]

\* MetricsService.GetMetricsSummary: the summaries it can return.  The filter carries
\* From and To alone, its Limit and Offset are zero.
GetMetricsSummary(data) ==
    LET from == AddDays(Now, -SummaryBackDays)
        to == Now
        filter == MetricsFilter(<<"", "", "", "", "">>, <<from, to>>, 0, 0)
    IN {SummaryOf(from, to, response) : response \in GetByFilter(data, filter)}

\* n copies of the record m, as n runs over the same inputs leave them
Copies(m, n) == [i \in 1..n |-> m]
\* what MetricsRepository.Store leaves of n records m and k records o of another day:
\* a partition for each day that got a record
Stored(m, n, o, k) ==
    [d \in {DateKey(m.date) : i \in 1..n} \cup {DateKey(o.date) : i \in 1..k} |->
        IF d = DateKey(m.date) THEN Copies(m, n) ELSE Copies(o, k)]
\* how many records of a kind are stored: few, or about the default limit
Few == {0, 1, 2}
Counts == Few \cup ((DefaultLimit - 1)..(DefaultLimit + MaxOver))
\* buckets of 2025-06-01 and 2025-06-10, inside the last 60 days, and of 2025-03-01,
\* before them
SummaryBuckets ==
    <<BucketOf(ProcessedAd(TimeOf(2025, 6, 1, 0, 0), "c1", "search", 1, 2, Sale)),
      BucketOf(ProcessedAd(TimeOf(2025, 6, 10, 0, 0), "c2", "social", 3, 1, Promo)),
      BucketOf(ProcessedAd(TimeOf(2025, 3, 1, 0, 0), "c3", "display", 5, 4, Sale))>>

\* a repository holding n records of one day and k of another
InitSummary ==
    /\ srcAds = <<>>
    /\ srcCRM = <<>>
    /\ Constructed
    /\ pool = PoolIdle
    /\ doom = None
    /\ \E n \in Counts, k \in Few, a, b \in DOMAIN SummaryBuckets :
          /\ a # b
          /\ served = [op |-> "summary", response |-> None,
                       data |-> Stored(SummaryBuckets[a], n, SummaryBuckets[b], k)]

\* GET /metrics/summary: h.metricsService.GetMetricsSummary(ctx)
Summarize ==
    /\ served.op = "summary"
    /\ \E summary \in GetMetricsSummary(served.data) :
          served' = [served EXCEPT !.op = "summarized", !.response = summary]
    /\ UNCHANGED <<pipeline, pool, doom>>

SpecSummary == InitSummary /\ [][Summarize]_vars

\* ------------------------------------------------------------ HTTP handlers
\* A query parameter is a text, the empty text when the request does not carry it
\* (c.Query): a date text is a record as in the raw records, a number text a sequence
\* of characters, a field value a string.
Absent == Day("", 0, 0, 0)
DigitChars == <<"0", "1", "2", "3", "4", "5", "6", "7", "8", "9">>
IsDigit(c) == \E d \in DOMAIN DigitChars : DigitChars[d] = c
DigitOf(c) == (CHOOSE d \in DOMAIN DigitChars : DigitChars[d] = c) - 1

RECURSIVE DecimalLoop(_, _, _)
DecimalLoop(s, i, acc) ==
    IF i > Len(s) THEN acc ELSE DecimalLoop(s, i + 1, acc * 10 + DigitOf(s[i]))

\* strconv.Atoi: an optional sign, then decimal digits, the number within int's range
Atoi(s) ==
    LET signed == s # <<>> /\ s[1] \in {"+", "-"}
        body == IF signed THEN Tail(s) ELSE s
        n == IF signed /\ s[1] = "-" THEN -DecimalLoop(body, 1, 0)
             ELSE DecimalLoop(body, 1, 0)
    IN IF body = <<>> \/ (\E i \in DOMAIN body : ~IsDigit(body[i]))
       THEN [ok |-> FALSE, n |-> 0]
       ELSE IF n > MaxInt \/ n < MinInt THEN [ok |-> FALSE, n |-> 0]
       ELSE [ok |-> TRUE, n |-> n]

\* A parser that is not the program's: a limit or offset it cannot read is taken as
\* not given.  C27 tells it from parseMetricsParams.
parseMetricsParamsLenient(q) ==
    LET from == IF q.from = Absent THEN Got(AddDays(Now, -FilterBackDays))
                ELSE Parse("2006-01-02", q.from)
        to == IF q.to = Absent THEN Got(Now) ELSE Parse("2006-01-02", q.to)
        limit == IF q.limit = <<>> \/ ~Atoi(q.limit).ok THEN [ok |-> TRUE, n |-> DefaultLimit]
                 ELSE Atoi(q.limit)
        offset == IF q.offset = <<>> \/ ~Atoi(q.offset).ok THEN [ok |-> TRUE, n |-> 0]
                  ELSE Atoi(q.offset)
    IN [ok |-> from.ok /\ to.ok /\ limit.ok /\ offset.ok,
        from |-> from.t, to |-> to.t, limit |-> limit.n, offset |-> offset.n]

\* HTTPHandlers.parseMetricsParams: from, to, limit, offset, or an error (ok false)
parseMetricsParams(q) ==
    LET from == IF q.from = Absent THEN Got(AddDays(Now, -FilterBackDays))
                ELSE Parse("2006-01-02", q.from)
        to == IF q.to = Absent THEN Got(Now) ELSE Parse("2006-01-02", q.to)
        limit == IF q.limit = <<>> THEN [ok |-> TRUE, n |-> DefaultLimit]
                 ELSE Atoi(q.limit)
        offset == IF q.offset = <<>> THEN [ok |-> TRUE, n |-> 0] ELSE Atoi(q.offset)
    IN [ok |-> from.ok /\ to.ok /\ limit.ok /\ offset.ok,
        from |-> from.t, to |-> to.t, limit |-> limit.n, offset |-> offset.n]

\* What a handler has done when it returns: the status and the error and message
\* fields of the JSON it wrote (a message made of an error is that error), how many
\* calls it made to read the metrics repository and to the export sink, and the
\* MetricsResponse it passed on, if any.  Status 0: nothing written yet.
Response(op, q, status, error, message, reads, sink, body) ==
    [op |-> op, req |-> q, status |-> status, error |-> error, message |-> message,
     reads |-> reads, sink |-> sink, body |-> body]

\* HTTPHandlers.GetMetricsByChannel with MetricsService.GetMetricsByChannel
GetMetricsByChannel(q, data) ==
    IF q.channel = ""
    THEN {Response("GetMetricsByChannel", q, 400, "Missing required parameter",
                   <<"channel parameter is required">>, 0, 0, <<>>)}
    ELSE LET p == parseMetricsParams(q)
         IN IF ~p.ok
            THEN {Response("GetMetricsByChannel", q, 400, "Invalid parameters",
                           <<"parse">>, 0, 0, <<>>)}
            ELSE {Response("GetMetricsByChannel", q, 200, "", <<>>, 1, 0, <<resp>>) :
                    resp \in GetByFilter(data,
                                MetricsFilter(<<q.channel, "", "", "", "">>,
                                              <<p.from, p.to>>, p.limit, p.offset))}

\* HTTPHandlers.GetMetricsByFunnel with MetricsService.GetMetricsByFunnel
GetMetricsByFunnel(q, data) ==
    IF q.utm_campaign = ""
    THEN {Response("GetMetricsByFunnel", q, 400, "Missing required parameter",
                   <<"utm_campaign parameter is required">>, 0, 0, <<>>)}
    ELSE LET p == parseMetricsParams(q)
         IN IF ~p.ok
            THEN {Response("GetMetricsByFunnel", q, 400, "Invalid parameters",
                           <<"parse">>, 0, 0, <<>>)}
            ELSE {Response("GetMetricsByFunnel", q, 200, "", <<>>, 1, 0, <<resp>>) :
                    resp \in GetByFilter(data,
                                MetricsFilter(<<"", "", q.utm_campaign, "", "">>,
                                              <<p.from, p.to>>, p.limit, p.offset))}

\* MetricsRepository.GetByDate
GetByDate(data, date) ==
    IF DateKey(date) \in DOMAIN data THEN data[DateKey(date)] ELSE <<>>

\* An export that is not the program's: it sends whatever GetByDate returned, an empty
\* list too.  C28 tells it from ExportMetrics.
ExportMetricsAlways(data, date, readOK, sinkOK) ==
    IF ~readOK
    THEN [err |-> Wrap("failed to get metrics for export", <<"store">>),
          reads |-> 1, sink |-> 0]
    ELSE IF ~sinkOK
    THEN [err |-> Wrap("failed to export metrics", <<"sink">>), reads |-> 1, sink |-> 1]
    ELSE [err |-> <<>>, reads |-> 1, sink |-> 1]

\* MetricsService.ExportMetrics over a metrics repository whose read succeeds or not
\* and a sink that accepts the data or not: the error returned and the calls made
ExportMetrics(data, date, readOK, sinkOK) ==
    IF ~readOK
    THEN [err |-> Wrap("failed to get metrics for export", <<"store">>),
          reads |-> 1, sink |-> 0]
    ELSE IF Len(GetByDate(data, date)) = 0
    THEN [err |-> <<"no metrics found for date">>, reads |-> 1, sink |-> 0]
    ELSE IF ~sinkOK
    THEN [err |-> Wrap("failed to export metrics", <<"sink">>), reads |-> 1, sink |-> 1]
    ELSE [err |-> <<>>, reads |-> 1, sink |-> 1]

\* HTTPHandlers.ExportRun
ExportRun(q, data, readOK, sinkOK) ==
    IF q.date = Absent
    THEN Response("ExportRun", q, 400, "Missing required parameter",
                  <<"date parameter is required">>, 0, 0, <<>>)
    ELSE LET p == Parse("2006-01-02", q.date)
         IN IF ~p.ok
            THEN Response("ExportRun", q, 400, "Invalid date format",
                          <<"Date must be in YYYY-MM-DD format">>, 0, 0, <<>>)
            ELSE LET e == ExportMetrics(data, p.t, readOK, sinkOK)
                 IN IF e.err # <<>>
                    THEN Response("ExportRun", q, 500, "Export failed", e.err,
                                  e.reads, e.sink, <<>>)
                    ELSE Response("ExportRun", q, 200, "", <<>>, e.reads, e.sink, <<>>)

\* date texts: none, "2025-01-01", "2025-06-02", "2025/06/01", "2025-02-30", "not-a-date"
DateTexts ==
    {Absent, Day("Y-M-D", 2025, 1, 1), Day("Y-M-D", 2025, 6, 2), Day("Y/M/D", 2025, 6, 1),
     Day("Y-M-D", 2025, 2, 30), Text}
\* number texts used below: none, "1", "-1", "x", "-", and "999", which is more than
\* the model's int holds

\* the requests that differ from a well-formed one in at most one parameter
OneOff(Q, base) == {q \in Q : Cardinality({f \in DOMAIN q : q[f] # base[f]}) <= 1}
ChannelRequests ==
    OneOff([channel : {"", "search"},
            from : {Absent, Day("Y-M-D", 2025, 1, 1), Text},
            to : {Absent, Day("Y/M/D", 2025, 6, 1)},
            limit : {<<>>, <<"1">>, <<"x">>},
            offset : {<<>>, <<"-", "1">>, <<"9", "9", "9">>}],
           [channel |-> "search", from |-> Day("Y-M-D", 2025, 1, 1), to |-> Absent,
            limit |-> <<>>, offset |-> <<>>])
FunnelRequests ==
    OneOff([utm_campaign : {"", "sale"},
            from : {Absent, Day("Y-M-D", 2025, 2, 30)},
            to : {Absent, Day("Y-M-D", 2025, 6, 2), Text},
            limit : {<<>>, <<"1">>, <<"-">>, <<"9", "9", "9">>},
            offset : {<<>>, <<"1">>, <<"x">>}],
           [utm_campaign |-> "sale", from |-> Absent, to |-> Day("Y-M-D", 2025, 6, 2),
            limit |-> <<"1">>, offset |-> <<>>])
ExportRequests == [date : DateTexts]
IngestRequests == [since : {Absent, Day("Y-M-D", 2025, 6, 1), Day("Y/M/D", 2025, 6, 1), Text}]

\* no run is under way: the handlers below are followed before the first run and after
\* a run that has completed
Quiet ==
    /\ stage \in {"Idle", "Done"}
    /\ ~(served.op = "IngestRun" /\ served.status = 0)

\* HTTPHandlers.IngestRun up to the call of RunETL, which the pipeline's actions carry
\* on; the server's first run is the one followed
IngestRun(q) ==
    /\ Quiet
    /\ LET p == IF q.since = Absent THEN Got(None) ELSE Parse("2006-01-02", q.since)
       IN IF ~p.ok
          THEN /\ served' = Response("IngestRun", q, 400, "Invalid date format",
                                     <<"Date must be in YYYY-MM-DD format">>, 0, 0, <<>>)
               /\ UNCHANGED <<pipeline, pool, doom>>
          ELSE /\ run = 0
               /\ EnterRun(p.t)
               /\ served' = Response("IngestRun", q, 0, "", <<>>, 0, 0, <<>>)

\* HTTPHandlers.IngestRun after RunETL has returned
IngestRespond ==
    /\ stage \in {"Done", "Failed"}
    /\ served.op = "IngestRun"
    /\ served.status = 0
    /\ served' = IF err = <<>>
                 THEN [served EXCEPT !.status = 200]
                 ELSE [served EXCEPT !.status = 500, !.error = "ETL ingestion failed",
                                     !.message = err]
    /\ UNCHANGED <<pipeline, pool, doom>>

ServeChannel(q) ==
    /\ Quiet
    /\ served' \in GetMetricsByChannel(q, metricsStore)
    /\ UNCHANGED <<pipeline, pool, doom>>

ServeFunnel(q) ==
    /\ Quiet
    /\ served' \in GetMetricsByFunnel(q, metricsStore)
    /\ UNCHANGED <<pipeline, pool, doom>>

ServeExport(q, readOK, sinkOK) ==
    /\ Quiet
    /\ served' = ExportRun(q, metricsStore, readOK, sinkOK)
    /\ UNCHANGED <<pipeline, pool, doom>>

\* the service as constructed, the ads API serving at most MaxHist records
InitServe ==
    /\ srcAds \in SeqsUpTo(AdSamples, MaxHist)
    /\ srcCRM = <<>>
    /\ Constructed
    /\ pool = PoolIdle
    /\ served = NoCall
    /\ doom = None

NextServe ==
    \/ \E q \in IngestRequests : IngestRun(q)
    \/ \E up \in Upstream : FetchAds(up)
    \/ \E up \in Upstream : FetchCRM(up)
    \/ ExtractJoin
    \/ Transform
    \/ StoreAds
    \/ StoreCRM
    \/ LoadJoin
    \/ Aggregate
    \/ IngestRespond
    \/ \E q \in ChannelRequests : ServeChannel(q)
    \/ \E q \in FunnelRequests : ServeFunnel(q)
    \/ \E q \in ExportRequests, readOK, sinkOK \in BOOLEAN : ServeExport(q, readOK, sinkOK)

\* the HTTP API served between pipeline runs
SpecServe == InitServe /\ [][NextServe]_vars

\* --------------------------------------------------- a run planned to fail
\* RunETL over an upstream and repositories that fail every call made in the stage
\* doom and no call made in another stage
DoomedFetchAds ==
    \E up \in Upstream :
        /\ (doom = "Extracting") = (FetchAdsData(up, srcAds).err # <<>>)
        /\ FetchAds(up)

DoomedFetchCRM ==
    \E up \in Upstream :
        /\ (doom = "Extracting") = (FetchCRMData(up, srcCRM).err # <<>>)
        /\ FetchCRM(up)

DoomedStoreAds == IF doom = "Loading" THEN StoreAdsFail ELSE StoreAds
DoomedStoreCRM == IF doom = "Loading" THEN StoreCRMFail ELSE StoreCRM
DoomedAggregate ==
    IF doom = "Aggregating" THEN \E c \in RepoCalls : AggregateFail(c) ELSE Aggregate

InitDoomed ==
    /\ srcAds \in SeqsUpTo(AdSamples, MaxHist)
    /\ srcCRM \in SeqsUpTo(OppSamples, MaxCRM)
    /\ Constructed
    /\ pool = PoolIdle
    /\ served = NoCall
    /\ doom \in Range(WorkStages)

\* the first call of RunETL
FirstRun(s) == stage = "Idle" /\ StartRun(s)

NextDoomed ==
    \/ \E s \in Sinces : FirstRun(s)
    \/ DoomedFetchAds
    \/ DoomedFetchCRM
    \/ ExtractJoin
    \/ Transform
    \/ DoomedStoreAds
    \/ DoomedStoreCRM
    \/ LoadJoin
    \/ DoomedAggregate

SpecDoomed == InitDoomed /\ [][NextDoomed]_vars

\* the steps of NextDoomed but the calculateMetrics that succeeds
DoomedSteps ==
    \/ \E s \in Sinces : FirstRun(s)
    \/ DoomedFetchAds
    \/ DoomedFetchCRM
    \/ ExtractJoin
    \/ Transform
    \/ DoomedStoreAds
    \/ DoomedStoreCRM
    \/ LoadJoin
    \/ doom = "Aggregating" /\ DoomedAggregate

\* RunETL is called, every goroutine is scheduled and every call returns; nothing is
\* assumed of a calculateMetrics that succeeds
SpecDoomedFair == SpecDoomed /\ WF_vars(DoomedSteps)

\* ------------------------------------ a run with a configured pool size
\* getIntEnv: the value of the variable when it is set and strconv.Atoi reads it,
\* the default otherwise; no range is checked
getIntEnv(text, defaultValue) ==
    IF text # <<>> /\ Atoi(text).ok THEN Atoi(text).n ELSE defaultValue

\* WORKER_POOL_SIZE as set in the environment: "0", "-1", "1"
PoolSizeTexts == {<<"0">>, <<"-", "1">>, <<"1">>}

\* config.Load and NewETLService: the service holds the configured size as workerPool;
\* its first run has extracted ads
InitConfigured ==
    /\ pool = PoolIdle
    /\ doom = None
    /\ \E ads \in SeqsUpTo(DatedAds, MaxAds), text \in PoolSizeTexts :
          /\ ExtractedWith(1, ads, <<>>, None, Empty, Empty, Empty, [ads |-> 0, crm |-> 0])
          /\ served = [op |-> "config", text |-> text,
                       workerPool |-> getIntEnv(text, WorkerPoolSize)]

\* the call of calculateMetricsWithWorkerPool with n workers started
PoolStarted(ads, opps, n) ==
    [phase |-> "running", ads |-> ads, opps |-> opps, size |-> n,
     todo |-> KeysOf(ads), jobs |-> <<>>, jobsClosed |-> FALSE,
     workers |-> [w \in 1..n |-> [pc |-> "recv", held |-> None]],
     results |-> <<>>, resultsClosed |-> FALSE,
     computed |-> <<>>, metrics |-> <<>>]

\* A pool that is not the program's: it starts one worker when the configured size is
\* below one.  C36 tells it from AggregateCall.
AggregateCallOneWorker ==
    /\ stage = "Aggregating"
    /\ pool = PoolIdle
    /\ pool' = PoolStarted(GetByDateRange(adStore, ScanFrom(since), ScanTo),
                           GetByDateRange(crmStore, ScanFrom(since), ScanTo),
                           IF served.workerPool < 1 THEN 1 ELSE served.workerPool)
    /\ UNCHANGED <<pipeline, served, doom>>

\* calculateMetrics reads both stores and calls calculateMetricsWithWorkerPool, which
\* groups, makes the channels and starts s.workerPool workers and the two goroutines
AggregateCall ==
    /\ stage = "Aggregating"
    /\ pool = PoolIdle
    /\ pool' = PoolStarted(GetByDateRange(adStore, ScanFrom(since), ScanTo),
                           GetByDateRange(crmStore, ScanFrom(since), ScanTo),
                           served.workerPool)
    /\ UNCHANGED <<pipeline, served, doom>>

\* calculateMetricsWithWorkerPool has returned: calculateMetrics stores the metrics and
\* RunETL returns nil
AggregateReturn ==
    /\ stage = "Aggregating"
    /\ pool.phase = "returned"
    /\ emitted' = pool.metrics
    /\ metricsStore' = MetricsRepoStore(metricsStore, pool.metrics)
    /\ stage' = "Done"
    /\ err' = <<>>
    /\ trace' = Append(trace, stage')
    /\ UNCHANGED <<run, since, srcAds, srcCRM, adsFetch, crmFetch, requests, adsData,
                   crmData, processedAds, processedCRM, recordsFailed, adsLoad, crmLoad,
                   adStore, crmStore, snap, pool, served, doom>>

NextConfigured ==
    \/ Transform
    \/ StoreAds
    \/ StoreCRM
    \/ LoadJoin
    \/ AggregateCall
    \/ Running /\ NextPool
    \/ AggregateReturn

SpecConfigured == InitConfigured /\ [][NextConfigured]_vars

\* the run and its goroutines are scheduled
SpecConfiguredFair == SpecConfigured /\ WF_vars(NextConfigured)

\* ------------------------------------ AdRepository under concurrent callers
\* Two callers of Store and one of GetByDateRange on one repository.  writer is the
\* caller of Store that holds r.mutex (0: none), readers the number of read locks held.
\* Each caller is at its call, in its loop under the lock, or done.
StoreCallers == {1, 2}
ScanRanges ==
    {<<TimeOf(2025, 6, 1, 0, 0), TimeOf(2025, 6, 3, 0, 0)>>,
     <<TimeOf(2025, 6, 1, 18, 0), TimeOf(2025, 6, 3, 6, 0)>>}

InitShared ==
    /\ srcAds = <<>>
    /\ srcCRM = <<>>
    /\ Constructed
    /\ pool = PoolIdle
    /\ doom = None
    /\ \E b \in [StoreCallers -> SeqsUpTo(ScanAds, MaxScanAds)], r \in ScanRanges :
          served = [op |-> "shared", data |-> Empty, writer |-> 0, readers |-> 0,
                    stores |-> [w \in StoreCallers |-> [pc |-> "call", batch |-> b[w], i |-> 1]],
                    scan |-> [pc |-> "call", from |-> r[1], to |-> r[2], date |-> r[1],
                              result |-> <<>>]]

\* r.mutex.Lock() in Store
StoreLock(w) ==
    /\ served.stores[w].pc = "call"
    /\ served.writer = 0
    /\ served.readers = 0
    /\ served' = [served EXCEPT !.writer = w, !.stores[w].pc = "loop"]
    /\ UNCHANGED <<pipeline, pool, doom>>

\* r.data[dateKey] = append(r.data[dateKey], ad), one turn of Store's loop
StoreAppend(w) ==
    /\ served.stores[w].pc = "loop"
    /\ served.stores[w].i <= Len(served.stores[w].batch)
    /\ LET ad == served.stores[w].batch[served.stores[w].i]
       IN served' = [served EXCEPT !.data = Put(@, DateKey(ad.date), ad),
                                   !.stores[w].i = @ + 1]
    /\ UNCHANGED <<pipeline, pool, doom>>

\* Store returns: defer r.mutex.Unlock()
StoreUnlock(w) ==
    /\ served.stores[w].pc = "loop"
    /\ served.stores[w].i > Len(served.stores[w].batch)
    /\ served' = [served EXCEPT !.writer = 0, !.stores[w].pc = "done"]
    /\ UNCHANGED <<pipeline, pool, doom>>

\* r.mutex.RLock() in GetByDateRange
ScanRLock ==
    /\ served.scan.pc = "call"
    /\ served.writer = 0
    /\ served' = [served EXCEPT !.readers = @ + 1, !.scan.pc = "loop"]
    /\ UNCHANGED <<pipeline, pool, doom>>

\* one turn of GetByDateRange's loop
ScanDay ==
    /\ served.scan.pc = "loop"
    /\ ~After(served.scan.date, served.scan.to)
    /\ LET k == DateKey(served.scan.date)
       IN served' = [served EXCEPT
                        !.scan.result = IF k \in DOMAIN served.data
                                        THEN @ \o served.data[k] ELSE @,
                        !.scan.date = AddDays(@, 1)]
    /\ UNCHANGED <<pipeline, pool, doom>>

\* GetByDateRange returns: defer r.mutex.RUnlock()
ScanRUnlock ==
    /\ served.scan.pc = "loop"
    /\ After(served.scan.date, served.scan.to)
    /\ served' = [served EXCEPT !.readers = @ - 1, !.scan.pc = "done"]
    /\ UNCHANGED <<pipeline, pool, doom>>

NextShared ==
    \/ \E w \in StoreCallers : StoreLock(w)
    \/ \E w \in StoreCallers : StoreAppend(w)
    \/ \E w \in StoreCallers : StoreUnlock(w)
    \/ ScanRLock
    \/ ScanDay
    \/ ScanRUnlock

SpecShared == InitShared /\ [][NextShared]_vars

\* ------------------------------------------- RunETL and the job metrics
\* Calls of RunETL on one service, each in its own goroutine (one per POST /ingest/run
\* being handled).  A call is idle, in one of RunETL's four calls (named as
\* RecordETLJob names them), about to return, or done; recorded lists the label pairs
\* it has passed to RecordETLJob.  inProgress is the gauge etl_jobs_in_progress,
\* jobsTotal the counter etl_jobs_total per label pair.
MaxCalls == 2
JobStages == <<"extract", "transform", "load", "metrics">>
\* the calls of RunETL that can return an error: transformData always returns nil
Fallible == {"extract", "load", "metrics"}
JobLabels == {<<"failed", JobStages[i]>> : i \in DOMAIN JobStages} \cup {<<"success", "complete">>}

InitJobs ==
    /\ srcAds = <<>>
    /\ srcCRM = <<>>
    /\ Constructed
    /\ pool = PoolIdle
    /\ doom = None
    /\ served = [op |-> "jobs", inProgress |-> 0,
                 jobsTotal |-> [l \in JobLabels |-> 0],
                 calls |-> [c \in 1..MaxCalls |-> [pc |-> "idle", at |-> 0, recorded |-> <<>>]]]

\* s.metrics.IncETLJobsInProgress() on entry; the decrement is deferred
RunEnter(c) ==
    /\ served.calls[c].pc = "idle"
    /\ served' = [served EXCEPT !.inProgress = @ + 1,
                                !.calls[c] = [@ EXCEPT !.pc = "running", !.at = 1]]
    /\ UNCHANGED <<pipeline, pool, doom>>

\* the call RunETL is in returns no error and is not the last: on to the next
StageDone(c) ==
    /\ served.calls[c].pc = "running"
    /\ served.calls[c].at < Len(JobStages)
    /\ served' = [served EXCEPT !.calls[c].at = @ + 1]
    /\ UNCHANGED <<pipeline, pool, doom>>

\* the call RunETL is in returns an error: RecordETLJob("failed", <stage>, ...)
StageFailed(c) ==
    /\ served.calls[c].pc = "running"
    /\ JobStages[served.calls[c].at] \in Fallible
    /\ LET l == <<"failed", JobStages[served.calls[c].at]>>
       IN served' = [served EXCEPT !.jobsTotal[l] = @ + 1,
                                   !.calls[c] = [@ EXCEPT !.pc = "returning",
                                                          !.recorded = Append(@, l)]]
    /\ UNCHANGED <<pipeline, pool, doom>>

\* calculateMetrics returns no error: RecordETLJob("success", "complete", duration)
RunSucceeded(c) ==
    /\ served.calls[c].pc = "running"
    /\ served.calls[c].at = Len(JobStages)
    /\ LET l == <<"success", "complete">>
       IN served' = [served EXCEPT !.jobsTotal[l] = @ + 1,
                                   !.calls[c] = [@ EXCEPT !.pc = "returning",
                                                          !.recorded = Append(@, l)]]
    /\ UNCHANGED <<pipeline, pool, doom>>

\* A return that is not the program's: the gauge is decremented on the path of success
\* alone.  C38 tells it from RunExit.
RunExitUndeferred(c) ==
    /\ served.calls[c].pc = "returning"
    /\ served' = [served EXCEPT
                     !.inProgress = IF served.calls[c].recorded = <<<<"success", "complete">>>>
                                    THEN @ - 1 ELSE @,
                     !.calls[c].pc = "done"]
    /\ UNCHANGED <<pipeline, pool, doom>>

\* RunETL returns: the deferred s.metrics.DecETLJobsInProgress() runs
RunExit(c) ==
    /\ served.calls[c].pc = "returning"
    /\ served' = [served EXCEPT !.inProgress = @ - 1, !.calls[c].pc = "done"]
    /\ UNCHANGED <<pipeline, pool, doom>>

NextJobs ==
    \/ \E c \in 1..MaxCalls : RunEnter(c)
    \/ \E c \in 1..MaxCalls : StageDone(c)
    \/ \E c \in 1..MaxCalls : StageFailed(c)
    \/ \E c \in 1..MaxCalls : RunSucceeded(c)
    \/ \E c \in 1..MaxCalls : RunExit(c)

SpecJobs == InitJobs /\ [][NextJobs]_vars

\* ------------------------------------------------- the Timeout middleware
\* One request passing Timeout: the middleware starts c.Next() in a goroutine and
\* selects on done and ctx.Done().  handler is that goroutine (running, writing its
\* c.JSON, written, returned), mw the middleware (select, writing its c.JSON,
\* returned); written lists the responses whose writing has ended, in order.
Routes ==
    {"/health", "/api/v1/", "/api/v1/ingest/run", "/api/v1/metrics/channel",
     "/api/v1/metrics/funnel", "/api/v1/metrics/summary", "/api/v1/export/run"}
\* the statuses the handler of a route answers with
StatusesOf(route) ==
    CASE route \in {"/health", "/api/v1/"} -> {200}
      [] route = "/api/v1/metrics/summary" -> {200, 500}
      [] route = "/api/v1/ingest/run" -> {200, 400, 500}
      [] route = "/api/v1/export/run" -> {200, 400, 404, 500}
      [] OTHER -> {200, 400, 500}

InitTimeout ==
    /\ srcAds = <<>>
    /\ srcCRM = <<>>
    /\ Constructed
    /\ pool = PoolIdle
    /\ doom = None
    /\ \E route \in Routes :
          served = [op |-> "request", route |-> route, ctxDone |-> FALSE,
                    doneClosed |-> FALSE, handler |-> "running", mw |-> "select",
                    status |-> 0, written |-> <<>>]

\* the 30 seconds pass, or the client goes away: ctx.Done() is closed
Deadline ==
    /\ served.op = "request"
    /\ ~served.ctxDone
    /\ served.mw # "returned"
    /\ served' = [served EXCEPT !.ctxDone = TRUE]
    /\ UNCHANGED <<pipeline, pool, doom>>

\* the handler reaches its c.JSON(status, ...)
HandlerWriteBegin(st) ==
    /\ served.op = "request"
    /\ served.handler = "running"
    /\ served' = [served EXCEPT !.handler = "writing", !.status = st]
    /\ UNCHANGED <<pipeline, pool, doom>>

\* the handler's c.JSON returns
HandlerWriteEnd ==
    /\ served.op = "request"
    /\ served.handler = "writing"
    /\ served' = [served EXCEPT
                     !.handler = "written",
                     !.written = Append(@, [by |-> "handler", status |-> served.status])]
    /\ UNCHANGED <<pipeline, pool, doom>>

\* c.Next() returns in the goroutine: close(done)
HandlerReturn ==
    /\ served.op = "request"
    /\ served.handler = "written"
    /\ served' = [served EXCEPT !.handler = "returned", !.doneClosed = TRUE]
    /\ UNCHANGED <<pipeline, pool, doom>>

\* case <-done: the middleware returns
SelectDone ==
    /\ served.op = "request"
    /\ served.mw = "select"
    /\ served.doneClosed
    /\ served' = [served EXCEPT !.mw = "returned"]
    /\ UNCHANGED <<pipeline, pool, doom>>

\* case <-ctx.Done(): the middleware reaches its c.JSON(http.StatusRequestTimeout, ...)
SelectTimeout ==
    /\ served.op = "request"
    /\ served.mw = "select"
    /\ served.ctxDone
    /\ served' = [served EXCEPT !.mw = "writing"]
    /\ UNCHANGED <<pipeline, pool, doom>>

\* the middleware's c.JSON returns; c.Abort(); the middleware returns
TimeoutWriteEnd ==
    /\ served.op = "request"
    /\ served.mw = "writing"
    /\ served' = [served EXCEPT !.mw = "returned",
                                !.written = Append(@, [by |-> "timeout", status |-> 408])]
    /\ UNCHANGED <<pipeline, pool, doom>>

NextTimeout ==
    \/ Deadline
    \/ \E st \in StatusesOf(served.route) : HandlerWriteBegin(st)
    \/ HandlerWriteEnd
    \/ HandlerReturn
    \/ SelectDone
    \/ SelectTimeout
    \/ TimeoutWriteEnd

SpecTimeout == InitTimeout /\ [][NextTimeout]_vars

\* the call has returned
Returned == pool.phase = "returned"
\* the group of ad records the returned bucket b was computed from
AdGroup(b) == GroupOf(pool.ads, UTMKeyOf(b))
\* the sum of field over the records of q at the positions in idx
RECURSIVE SumAt(_, _, _)
SumAt(q, idx, field) ==
    IF idx = {} THEN 0
    ELSE LET i == CHOOSE x \in idx : TRUE IN q[i][field] + SumAt(q, idx \ {i}, field)

\* C13 as stated: every bucket a finished run emitted has the UTM key of an ad record
\* that this same run normalized.
C13_BucketNeedsAdOfRun ==
    stage = "Done" =>
        \A i \in 1..Len(emitted) :
            \E r \in Range(processedAds) : UTMKeyOf(r) = UTMKeyOf(emitted[i])

\* C13 as amended: every bucket a finished run emitted has the UTM key of an ad record
\* held in the ad store within the run's date range, whichever run stored it.
C13_BucketNeedsStoredAd ==
    stage = "Done" =>
        \A i \in 1..Len(emitted) :
            \E r \in AdsInRange : UTMKeyOf(r) = UTMKeyOf(emitted[i])

\* a second run that normalized no ad record emitted a bucket from the first run's ads
C13_Witness ==
    /\ stage = "Done"
    /\ run = 2
    /\ processedAds = <<>>
    /\ emitted # <<>>

\* the positions of the ad records of key utm handed to the call, of day d or of any day
AdsOfKeyOnDay(utm, d) ==
    {j \in DOMAIN pool.ads : UTMKeyOf(pool.ads[j]) = utm /\ DateKey(pool.ads[j].date) = d}
AdsOfKey(utm) == {j \in DOMAIN pool.ads : UTMKeyOf(pool.ads[j]) = utm}
BucketsOf(utm) == {i \in DOMAIN pool.metrics : UTMKeyOf(pool.metrics[i]) = utm}

\* C15 as stated: the returned buckets are one per (day, UTM key) observed among the ad
\* records, each dated that day and holding the totals of that day's records of the key.
C15_OnePerDayAndKey ==
    Returned =>
        LET pairs == {<<DateKey(pool.ads[j].date), UTMKeyOf(pool.ads[j])>> : j \in DOMAIN pool.ads}
        IN /\ Len(pool.metrics) = Cardinality(pairs)
           /\ \A p \in pairs :
                 \E i \in BucketsOf(p[2]) :
                     /\ DateKey(pool.metrics[i].date) = p[1]
                     /\ pool.metrics[i].clicks = SumAt(pool.ads, AdsOfKeyOnDay(p[2], p[1]), "clicks")
                     /\ pool.metrics[i].cost = SumAt(pool.ads, AdsOfKeyOnDay(p[2], p[1]), "cost")

\* C15 as amended: the returned buckets are one per UTM key observed among the ad
\* records, each holding the totals of all the records of the key, whatever their day.
C15_OnePerKey ==
    Returned =>
        /\ Len(pool.metrics) = Cardinality(KeysOf(pool.ads))
        /\ \A utm \in KeysOf(pool.ads) :
              /\ Cardinality(BucketsOf(utm)) = 1
              /\ \A i \in BucketsOf(utm) :
                    /\ pool.metrics[i].clicks = SumAt(pool.ads, AdsOfKey(utm), "clicks")
                    /\ pool.metrics[i].impressions = SumAt(pool.ads, AdsOfKey(utm), "impressions")
                    /\ pool.metrics[i].cost = SumAt(pool.ads, AdsOfKey(utm), "cost")

\* a bucket was returned for a key whose ad records are of two days, with clicks on
\* the earlier one
C15_Witness ==
    /\ Returned
    /\ \E i \in DOMAIN pool.metrics :
          \E j, k \in AdsOfKey(UTMKeyOf(pool.metrics[i])) :
              /\ DateKey(pool.ads[j].date) < DateKey(pool.ads[k].date)
              /\ pool.ads[j].clicks > 0

\* the positions of the opportunities of key utm handed to the call, all or of stage st
OppsOfKey(utm) == {j \in DOMAIN pool.opps : UTMKeyOf(pool.opps[j]) = utm}
OppsOfKeyInStage(utm, st) == {j \in OppsOfKey(utm) : pool.opps[j].stage = st}

\* C16: in every returned bucket clicks, impressions and cost are the sums over the ad
\* records of the bucket's key; leads, opportunities and closed_won are the numbers of
\* the key's opportunities in stage lead, opportunity and closed_won; revenue is the
\* sum of amount over the closed_won ones alone, so that closed_lost ones change nothing.
C16_TotalsAndCounts ==
    Returned =>
        \A i \in DOMAIN pool.metrics :
            LET b == pool.metrics[i]
                utm == UTMKeyOf(b)
            IN /\ b.clicks = SumAt(pool.ads, AdsOfKey(utm), "clicks")
               /\ b.impressions = SumAt(pool.ads, AdsOfKey(utm), "impressions")
               /\ b.cost = SumAt(pool.ads, AdsOfKey(utm), "cost")
               /\ b.leads = Cardinality(OppsOfKeyInStage(utm, "lead"))
               /\ b.opportunities = Cardinality(OppsOfKeyInStage(utm, "opportunity"))
               /\ b.closed_won = Cardinality(OppsOfKeyInStage(utm, "closed_won"))
               /\ b.revenue = SumAt(pool.opps, OppsOfKeyInStage(utm, "closed_won"), "amount")

\* a bucket was returned for a key with a closed_won and a closed_lost opportunity, both
\* with an amount, and two ad records
C16_Witness ==
    /\ Returned
    /\ \E i \in DOMAIN pool.metrics :
          LET utm == UTMKeyOf(pool.metrics[i])
          IN /\ Cardinality(AdsOfKey(utm)) >= 2
             /\ \E j \in OppsOfKeyInStage(utm, "closed_won") : pool.opps[j].amount > 0
             /\ \E j \in OppsOfKeyInStage(utm, "closed_lost") : pool.opps[j].amount > 0
             /\ pool.metrics[i].revenue > 0

\* the ratio r is the exact quotient n/d when d > 0 and zero otherwise
IsRatio(r, n, d) ==
    /\ r.den > 0
    /\ IF d > 0 THEN r.num * d = n * r.den ELSE r.num = 0

\* C17: in every returned bucket CPC is cost/clicks when clicks > 0, CPA is cost/leads
\* when leads > 0, CVR-lead-to-opportunity is opportunities/leads when leads > 0,
\* CVR-opportunity-to-won is closed_won/opportunities when opportunities > 0 and ROAS is
\* revenue/cost when cost > 0, each exactly, and each is 0 when its denominator is 0.
C17_RatiosGuarded ==
    Returned =>
        \A i \in DOMAIN pool.metrics :
            LET b == pool.metrics[i]
            IN /\ IsRatio(b.cpc, b.cost, b.clicks)
               /\ IsRatio(b.cpa, b.cost, b.leads)
               /\ IsRatio(b.cvr_lead_to_opp, b.opportunities, b.leads)
               /\ IsRatio(b.cvr_opp_to_won, b.closed_won, b.opportunities)
               /\ IsRatio(b.roas, b.revenue, b.cost)

\* the example of the claim: 100 clicks, cost 50 and one lead give CPC 1/2, CPA 50 and
\* CVR-lead-to-opportunity 0, with the two ratios over no opportunity and no revenue 0
C17_Witness ==
    /\ Returned
    /\ \E i \in DOMAIN pool.metrics :
          LET b == pool.metrics[i]
          IN /\ b.clicks = 100 /\ b.cost = 50 /\ b.leads = 1 /\ b.opportunities = 0
             /\ b.cpc = [num |-> 1, den |-> 2]
             /\ b.cpa = [num |-> 50, den |-> 1]
             /\ b.cvr_lead_to_opp = ZeroRatio
             /\ b.cvr_opp_to_won = ZeroRatio
             /\ b.roas = ZeroRatio

\* C18: in every returned bucket the date is the latest date among the ad records of
\* the bucket's key, and channel and campaign_id are those of one of these records that
\* carries that date.
C18_LatestRecordWins ==
    Returned =>
        \A i \in DOMAIN pool.metrics :
            LET b == pool.metrics[i]
                g == AdGroup(b)
            IN /\ \A j \in DOMAIN g : ~After(g[j].date, b.date)
               /\ \E j \in DOMAIN g : /\ g[j].date = b.date
                                      /\ g[j].channel = b.channel
                                      /\ g[j].campaign_id = b.campaign_id

\* the positions in the group g of the records that carry the latest date of g
Latest(g) == {j \in DOMAIN g : \A k \in DOMAIN g : ~After(g[k].date, g[j].date)}
First(S) == CHOOSE j \in S : \A k \in S : j <= k
Final(S) == CHOOSE j \in S : \A k \in S : j >= k

\* C19 as stated: when several ad records of a bucket's key carry the latest date, the
\* bucket has the channel and the campaign_id of the last of them in the group's order.
C19_LastSeenWins ==
    Returned =>
        \A i \in DOMAIN pool.metrics :
            LET b == pool.metrics[i]
                g == AdGroup(b)
            IN Cardinality(Latest(g)) >= 2 =>
                  /\ b.channel = g[Final(Latest(g))].channel
                  /\ b.campaign_id = g[Final(Latest(g))].campaign_id

\* C19 as amended: when several ad records of a bucket's key carry the latest date, the
\* bucket has the channel and the campaign_id of the first of them in the group's order
\* if that date is after the zero time, and empty ones if it is not.
C19_FirstSeenWins ==
    Returned =>
        \A i \in DOMAIN pool.metrics :
            LET b == pool.metrics[i]
                g == AdGroup(b)
            IN Cardinality(Latest(g)) >= 2 =>
                  IF After(g[First(Latest(g))].date, ZeroTime)
                  THEN /\ b.channel = g[First(Latest(g))].channel
                       /\ b.campaign_id = g[First(Latest(g))].campaign_id
                  ELSE /\ b.channel = ""
                       /\ b.campaign_id = ""

\* a bucket was returned for a key whose two latest ad records, of one date after the
\* zero time, differ in channel and campaign_id
C19_Witness ==
    /\ Returned
    /\ \E i \in DOMAIN pool.metrics :
          LET g == AdGroup(pool.metrics[i])
          IN /\ Cardinality(Latest(g)) >= 2
             /\ After(g[First(Latest(g))].date, ZeroTime)
             /\ g[First(Latest(g))].channel # g[Final(Latest(g))].channel
             /\ g[First(Latest(g))].campaign_id # g[Final(Latest(g))].campaign_id

\* what the goroutines return is one of the slices calculateMetricsWithWorkerPool,
\* taken as one step in SpecCalc, can return
PoolRefines ==
    Returned => pool.metrics \in calculateMetricsWithWorkerPool(pool.ads, pool.opps, pool.size)

\* the number of positions of the list q that hold x
Times(q, x) == Cardinality({i \in DOMAIN q : q[i] = x})

\* C14: at no point has a key been passed to calculateMetricForUTM twice, or a key that
\* no ad record has; and when the call returns, for any pool size from 1 on, every key
\* of the ad records was computed and has exactly one bucket, and no other key has one.
C14_OneBucketPerAdKey ==
    /\ \A utm \in Range(pool.computed) :
          utm \in KeysOf(pool.ads) /\ Times(pool.computed, utm) = 1
    /\ Returned =>
          /\ \A utm \in KeysOf(pool.ads) :
                Times(pool.computed, utm) = 1 /\ Cardinality(BucketsOf(utm)) = 1
          /\ \A i \in DOMAIN pool.metrics : UTMKeyOf(pool.metrics[i]) \in KeysOf(pool.ads)
          /\ \A utm \in KeysOf(pool.opps) \ KeysOf(pool.ads) : BucketsOf(utm) = {}

\* the call returned buckets for two keys while a third key had only an opportunity
C14_Witness ==
    /\ Returned
    /\ pool.size >= 1
    /\ Cardinality(KeysOf(pool.ads)) = 2
    /\ Len(pool.metrics) = 2
    /\ KeysOf(pool.opps) \ KeysOf(pool.ads) # {}

\* every key was sent and computed, the workers have left their loops, and both
\* channels are closed and empty
Drained ==
    /\ pool.todo = {}
    /\ pool.jobs = <<>>
    /\ pool.jobsClosed
    /\ \A utm \in KeysOf(pool.ads) : utm \in Range(pool.computed)
    /\ \A w \in DOMAIN pool.workers : pool.workers[w].pc = "done" /\ pool.workers[w].held = None
    /\ pool.results = <<>>
    /\ pool.resultsClosed

\* C20: for every pool size from 1 on and every input, the call returns in the end
\* (producer, workers, closer and collector never block one another for good), and
\* when it returns every key was computed by a worker and the results channel is
\* closed and drained.
C20_ReturnsWhenDrained ==
    /\ <>Returned
    /\ [](Returned => Drained)

\* the call returned a bucket for each of its keys, which were more than its workers
C20_Witness ==
    /\ Returned
    /\ Cap > pool.size
    /\ Len(pool.metrics) = Cap

\* the UTC calendar day of the instant t
UTCDay(t) == t.utc \div HoursPerDay
\* the partitions of data that hold the record rec
PartitionsOf(data, rec) == {k \in DOMAIN data : rec \in Range(data[k])}

\* C21: every record of the three stores lies in the partition whose key is the UTC
\* calendar day of its timestamp and in no other partition, also when the timestamp was parsed with a zone offset.
C21_PartitionIsUTCDay ==
    /\ \A k \in DOMAIN adStore : \A i \in DOMAIN adStore[k] :
          k = UTCDay(adStore[k][i].date) /\ PartitionsOf(adStore, adStore[k][i]) = {k}
    /\ \A k \in DOMAIN crmStore : \A i \in DOMAIN crmStore[k] :
          k = UTCDay(crmStore[k][i].created_at) /\ PartitionsOf(crmStore, crmStore[k][i]) = {k}
    /\ \A k \in DOMAIN metricsStore : \A i \in DOMAIN metricsStore[k] :
          /\ k = UTCDay(metricsStore[k][i].date)
          /\ PartitionsOf(metricsStore, metricsStore[k][i]) = {k}

\* the partitions of data in ascending order of the day keys ks, one after the other
RECURSIVE ConcatDays(_, _)
ConcatDays(data, ks) ==
    IF ks = {} THEN <<>>
    ELSE LET k == CHOOSE x \in ks : \A y \in ks : x <= y
         IN data[k] \o ConcatDays(data, ks \ {k})

\* a range read has returned
Scanned == served.op = "scanned"

\* C22: a range read with from not after to, whatever their times of day, returns the
\* records of the partitions whose day key lies from the day of from to the day of to,
\* in ascending order of the days; a day without a partition adds nothing.
C22_ScanCoversBothDays ==
    (Scanned /\ ~After(served.from, served.to)) =>
        served.result =
            ConcatDays(served.data,
                       {k \in DOMAIN served.data :
                           DateKey(served.from) <= k /\ k <= DateKey(served.to)})

\* C23: when a batch was stored in an empty repository, the range read from the earliest
\* timestamp of the batch to the latest returns the records of the batch, each once.
C23_RoundTrip ==
    (/\ Scanned
     /\ served.batch # <<>>
     /\ \E i \in DOMAIN served.batch : served.batch[i].date = served.from
     /\ \E i \in DOMAIN served.batch : served.batch[i].date = served.to
     /\ \A i \in DOMAIN served.batch :
           ~Before(served.batch[i].date, served.from) /\ ~After(served.batch[i].date, served.to))
        => /\ Len(served.result) = Len(served.batch)
           /\ Range(served.result) = Range(served.batch)

\* GetByFilter has answered
Answered == served.op = "answered"
\* every field the filter sets is the record's field
Agrees(m, filter) == \A f \in FilterFields : filter[f] = "" \/ m[f] = filter[f]
\* the records of q that satisfy Agrees, in the order of q
RECURSIVE Agreeing(_, _)
Agreeing(q, filter) ==
    IF q = <<>> THEN <<>>
    ELSE (IF Agrees(Head(q), filter) THEN <<Head(q)>> ELSE <<>>) \o Agreeing(Tail(q), filter)

\* C24: the filter keeps, in order, the records of the range whose fields are equal to
\* every field the filter sets, an empty filter field agreeing with everything; and the
\* same filter applied to what it kept keeps all of it.
C24_FilterExact ==
    Answered =>
        /\ served.filtered = Agreeing(served.all, served.filter)
        /\ ApplyFilter(served.filtered, served.filter) = served.filtered

\* a filter that sets the channel and the UTM source kept one record of two, the other
\* agreeing with the channel only
C24_Witness ==
    /\ Answered
    /\ served.filter.channel = "search"
    /\ served.filter.utm_source = "google"
    /\ Len(served.all) = 2
    /\ \A i \in DOMAIN served.all : served.all[i].channel = "search"
    /\ Len(served.filtered) = 1

Min(a, b) == IF a < b THEN a ELSE b

\* C25: for a limit of 1 or more and an offset of 0 or more the page has at most limit
\* records, total is the number of records the filter kept, and has_more is true
\* exactly when offset + limit is less than total.
C25_PageBounds ==
    (Answered /\ served.filter.limit >= 1 /\ served.filter.offset >= 0) =>
        /\ Len(served.response.data) <= served.filter.limit
        /\ served.response.total = Len(served.filtered)
        /\ served.response.has_more
              <=> (served.filter.offset + served.filter.limit < served.response.total)

\* C26: with limit read as 100 when it is not positive and offset as 0 when it is
\* negative, the page is the part from offset to offset + limit, cut to the length of
\* the list, of the kept records in ascending order of date, so that an offset past the
\* end gives an empty page; and the response reports that limit and that offset.
C26_PageIsSlice ==
    Answered =>
        LET limit == IF served.filter.limit > 0 THEN served.filter.limit ELSE DefaultLimit
            offset == IF served.filter.offset > 0 THEN served.filter.offset ELSE 0
            total == Len(served.filtered)
        IN /\ served.response.limit = limit
           /\ served.response.offset = offset
           /\ \E sorted \in SortSlice(served.filtered) :
                 served.response.data =
                     SubSeq(sorted, Min(offset, total) + 1, Min(offset + limit, total))

\* ---------------------------------------------------------- request validation
\* a date parameter that is given and is not a calendar date written YYYY-MM-DD
BadDate(s) == s # Absent /\ ~(s.shape = "Y-M-D" /\ ValidDate(s.f1, s.f2, s.f3))
\* a limit or offset that is given and is not a number an int can hold
BadNumber(s) == s # <<>> /\ ~Atoi(s).ok
BadParams(q) == BadDate(q.from) \/ BadDate(q.to) \/ BadNumber(q.limit) \/ BadNumber(q.offset)

\* the request the handler has answered lacks a required parameter or carries one
\* that cannot be parsed
Malformed(r) ==
    CASE r.op = "GetMetricsByChannel" -> r.req.channel = "" \/ BadParams(r.req)
      [] r.op = "GetMetricsByFunnel" -> r.req.utm_campaign = "" \/ BadParams(r.req)
      [] r.op = "ExportRun" -> r.req.date = Absent \/ BadDate(r.req.date)
      [] r.op = "IngestRun" -> BadDate(r.req.since)
      [] OTHER -> FALSE

\* C27: a channel or funnel query without its required field or with a from, to,
\* limit or offset that cannot be parsed, an export request without a date or with one
\* that cannot be parsed, and an ingest request whose since cannot be parsed, is
\* answered with status 400; the handler has made no call to a repository or to the
\* sink, no data map has changed and no run has been started.
C27_RejectedBeforeStore ==
    [][(served' # served /\ Malformed(served'))
         => /\ served'.status = 400
            /\ served'.reads = 0
            /\ served'.sink = 0
            /\ UNCHANGED pipeline]_vars

\* after a run has stored metrics, a channel query whose limit is not a number has
\* been rejected
C27_Witness ==
    /\ served.op = "GetMetricsByChannel"
    /\ served.req.channel = "search"
    /\ served.req.limit = <<"x">>
    /\ served.status = 400
    /\ metricsStore # Empty
    /\ stage = "Done"

\* ------------------------------------------------------------------- export
NoData == <<"no metrics found for date">>
ReadFailed == <<"failed to get metrics for export", "store">>
\* the metrics stored under the day the answered export request names
StoredForExport == GetByDate(metricsStore, Parse("2006-01-02", served.req.date).t)

FailedIn(st) == stage = "Failed" /\ Len(trace) >= 2 /\ trace[Len(trace) - 1] = st

Left(st) == st \in Range(trace) /\ stage # st

\* C30: no error is reported while a run is in Extracting or Loading; once the run has
\* left Extracting, failed or not, both fetches have returned; once it has left
\* Loading, failed or not, both Store calls have returned, and the one that succeeded
\* has stored its whole batch, whatever became of the other.
C30_BothBranchesFinish ==
    /\ stage \in {"Extracting", "Loading"} => err = <<>>
    /\ Left("Extracting") => adsFetch.done /\ crmFetch.done
    /\ Left("Loading")
         => /\ adsLoad \in {"ok", "err"}
            /\ crmLoad \in {"ok", "err"}
            /\ adsLoad = "ok" => adStore = AdRepoStore(snap.ad, processedAds)
            /\ crmLoad = "ok" => crmStore = CRMRepoStore(snap.crm, processedCRM)

\* the ad Store has failed, the CRM Store has stored its records all the same, and
\* the run has failed
C30_Witness ==
    /\ stage = "Failed"
    /\ adsLoad = "err"
    /\ crmLoad = "ok"
    /\ processedCRM # <<>>
    /\ crmStore = CRMRepoStore(snap.crm, processedCRM)

\* ------------------------------------------------------ the pool's channels
\* jobs is closed and every worker has left its loop
Joined == pool.jobsClosed /\ \A w \in DOMAIN pool.workers : pool.workers[w].pc = "done"

C32_NoSendOnClosedNoFullChannel ==
    pool.phase = "running"
      => /\ pool.resultsClosed => \A w \in DOMAIN pool.workers : pool.workers[w].pc = "done"
         /\ pool.todo # {} => Len(pool.jobs) < Cap /\ ~pool.jobsClosed
         /\ \A w \in DOMAIN pool.workers :
               pool.workers[w].pc = "send" => Len(pool.results) < Cap /\ ~pool.resultsClosed

\* results holds as many results as it has room for, two or more; the producer has
\* sent every key
C32_Witness ==
    /\ pool.phase = "running"
    /\ Cap >= 2
    /\ Len(pool.results) = Cap
    /\ pool.todo = {}

\* ------------------------------------------------------ concurrent callers
\* the repository after the batches of the callers in order have been stored, one
\* whole batch after the other
RECURSIVE StoredInOrder(_)
StoredInOrder(order) ==
    IF order = <<>> THEN Empty
    ELSE AdRepoStore(StoredInOrder(Front(order)), served.stores[Last(order)].batch)
\* the repository as it is between whole Store calls
BetweenCalls == {StoredInOrder(o) : o \in {<<>>, <<1>>, <<2>>, <<1, 2>>, <<2, 1>>}}
\* the partitions of data whose day lies from the day of from to the day of to
DayScan(data, from, to) ==
    ConcatDays(data, {k \in DOMAIN data : DateKey(from) <= k /\ k <= DateKey(to)})

\* C33: when both Store calls have returned the repository holds the two batches, one
\* whole batch after the other, each record once; a range read that has returned has
\* read, on every day from the day of from to the day of to, the repository as it was
\* between two whole Store calls.
C33_AppendsAtomicToScan ==
    served.op = "shared"
      => /\ (\A w \in StoreCallers : served.stores[w].pc = "done")
              => served.data \in {StoredInOrder(<<1, 2>>), StoredInOrder(<<2, 1>>)}
         /\ served.scan.pc = "done"
              => \E d \in BetweenCalls :
                    served.scan.result = DayScan(d, served.scan.from, served.scan.to)

\* ------------------------------------------------------- failed extraction
ContextDone == <<"rate limit exceeded", "context done">>
\* the requests a fetch that returned e has put on the wire: none when the context
\* ended at the rate limiter's wait, one when client.Do was reached
SentFor(e) == IF e = ContextDone THEN 0 ELSE 1
ExtractionFailed == stage = "Failed" /\ trace = <<"Extracting", "Failed">>

\* C34: when a run has failed in extraction a fetch did fail, each source was asked at
\* most once (not at all when its context ended at the rate limiter's wait, once when
\* its request failed at the network call or in its answer), and the ad, CRM and metrics
\* stores hold what they held when the run started; while the run stays failed no
\* further request is sent and no store changes.
C34_FailedExtractionStopsThere ==
    /\ [](ExtractionFailed =>
             /\ adsFetch.err # <<>> \/ crmFetch.err # <<>>
             /\ adsFetch.err # <<>> => requests.ads = SentFor(adsFetch.err)
             /\ crmFetch.err # <<>> => requests.crm = SentFor(crmFetch.err)
             /\ requests.ads <= 1 /\ requests.crm <= 1
             /\ adStore = snap.ad /\ crmStore = snap.crm /\ metricsStore = snap.metrics)
    /\ [][(ExtractionFailed /\ stage' = "Failed")
             => /\ requests' = requests
                /\ adStore' = adStore /\ crmStore' = crmStore
                /\ metricsStore' = metricsStore]_vars

\* a second run failed because the context ended at the ads rate limiter's wait, no
\* ads request was sent, and the stores hold the records of the first run
C34_Witness ==
    /\ ExtractionFailed
    /\ adsFetch.err = ContextDone /\ requests.ads = 0
    /\ crmFetch.err = <<>> /\ requests.crm = 1
    /\ adStore # Empty /\ metricsStore # Empty

\* ------------------------------------------------- what a run aggregates
\* the stored ad records of the days from the day the run's range starts to the day it ends
StoredInWindow == DayScan(adStore, ScanFrom(since), ScanTo)
InWindow(r) ==
    DateKey(ScanFrom(since)) <= DateKey(r.date) /\ DateKey(r.date) <= DateKey(ScanTo)
\* the buckets the run emitted for the key of r, and the stored records of that key
EmittedFor(r) == {i \in DOMAIN emitted : UTMKeyOf(emitted[i]) = UTMKeyOf(r)}
WindowGroup(r) == {j \in DOMAIN StoredInWindow : UTMKeyOf(StoredInWindow[j]) = UTMKeyOf(r)}
\* r is one of the records whose clicks, impressions and cost make up the totals of
\* the one bucket emitted for its key
CountedOnce(r) ==
    /\ Cardinality(EmittedFor(r)) = 1
    /\ \E j \in WindowGroup(r) : StoredInWindow[j] = r
    /\ \A i \in EmittedFor(r) :
          /\ emitted[i].clicks = SumAt(StoredInWindow, WindowGroup(r), "clicks")
          /\ emitted[i].impressions = SumAt(StoredInWindow, WindowGroup(r), "impressions")
          /\ emitted[i].cost = SumAt(StoredInWindow, WindowGroup(r), "cost")

\* C35 as stated: when a run is done, every ad record it normalized and loaded is
\* counted in the totals of exactly one bucket it emitted, whatever the record's date.
C35_EveryLoadedAdCounted ==
    stage = "Done" => \A r \in Range(processedAds) : CountedOnce(r)

\* C35 as amended: when a run is done, every ad record it normalized and loaded whose
\* day lies from the day the run's range starts to the day it ends is counted in the
\* totals of exactly one bucket it emitted; a record of another day is counted in none,
\* the bucket of its key, if there is one, holding the totals of the records in range.
C35_LoadedAdInWindowCounted ==
    stage = "Done" =>
        \A r \in Range(processedAds) :
            IF InWindow(r) THEN CountedOnce(r)
            ELSE \A i \in EmittedFor(r) :
                    /\ emitted[i].clicks = SumAt(StoredInWindow, WindowGroup(r), "clicks")
                    /\ emitted[i].cost = SumAt(StoredInWindow, WindowGroup(r), "cost")

\* a run without since loaded a record of 2024-01-01 and one of 2025-06-10 of the same
\* key, and emitted that key's bucket
C35_Witness ==
    /\ stage = "Done"
    /\ since = None
    /\ \E r, q \in Range(processedAds) :
          /\ ~InWindow(r) /\ InWindow(q)
          /\ UTMKeyOf(r) = UTMKeyOf(q)
          /\ EmittedFor(q) # {}

\* --------------------------------------------------- a pool of no workers
\* the service was configured with a pool size of zero or less
Unmanned == served.op = "config" /\ served.workerPool <= 0

\* C36: with a configured pool size of zero or less no key is ever computed and no
\* result sent or collected, jobs holds no more than its capacity, the run never fails,
\* a run that is aggregating gets to Done, and when it is done it has emitted nothing
\* and the metrics store holds what it held when the run started.
C36_NoWorkersNoMetrics ==
    /\ [](Unmanned =>
             /\ stage # "Failed"
             /\ pool.phase \in {"running", "returned"} =>
                   /\ pool.computed = <<>> /\ pool.results = <<>> /\ pool.metrics = <<>>
                   /\ Len(pool.jobs) <= Cap
             /\ stage = "Done" => emitted = <<>> /\ metricsStore = snap.metrics)
    /\ ((Unmanned /\ stage = "Aggregating") ~> stage = "Done")

\* a run configured with WORKER_POOL_SIZE=-1 is done, its pool having had keys to send
\* for the ad records it read from the store
C36_Witness ==
    /\ Unmanned
    /\ served.workerPool < 0
    /\ stage = "Done"
    /\ pool.phase = "returned"
    /\ KeysOf(pool.ads) # {}
    /\ metricsStore = Empty

\* ------------------------------------------------------------ the summary
\* the stored records whose day lies in the summary's period
InPeriod == DayScan(served.data, AddDays(Now, -SummaryBackDays), Now)

\* C37: the totals of a summary are the sums of clicks, impressions, cost, leads,
\* opportunities, closed_won and revenue over all the stored records whose day lies in
\* its period, and metric_records is their number.
C37_SummaryCoversPeriod ==
    served.op = "summarized" =>
        /\ served.response.counts.metric_records = Len(InPeriod)
        /\ \A f \in {"clicks", "impressions", "cost", "leads", "opportunities",
                      "closed_won", "revenue"} :
              served.response.totals[f] = SumAt(InPeriod, DOMAIN InPeriod, f)

\* ------------------------------------------------------- the job metrics
\* the calls of RunETL that have entered and not yet returned
Executing == {c \in DOMAIN served.calls : served.calls[c].pc \in {"running", "returning"}}
\* the calls that have passed the label pair l to RecordETLJob
RecordedBy(l) == {c \in DOMAIN served.calls : l \in Range(served.calls[c].recorded)}

\* C38: the gauge of jobs in progress equals the number of calls of RunETL that have
\* entered and not returned; a call that is returning or has returned has recorded
\* exactly one outcome, success/complete when all four stages went through and
\* otherwise failed with the stage it was in; a call still in its stages has recorded
\* none; and each counter holds the number of calls that recorded its label pair.
C38_OneOutcomeGaugeCounts ==
    served.op = "jobs" =>
        /\ served.inProgress = Cardinality(Executing)
        /\ \A c \in DOMAIN served.calls :
              LET call == served.calls[c]
              IN IF call.pc \in {"returning", "done"}
                 THEN /\ Len(call.recorded) = 1
                      /\ call.recorded[1] \in {<<"success", "complete">>,
                                                <<"failed", JobStages[call.at]>>}
                      /\ call.recorded[1][1] = "success" => call.at = Len(JobStages)
                 ELSE call.recorded = <<>>
        /\ \A l \in JobLabels : served.jobsTotal[l] = Cardinality(RecordedBy(l))

\* one call has returned after failing in load while another, past its stages with
\* success recorded, is still to return
C38_Witness ==
    /\ served.op = "jobs"
    /\ served.inProgress = 1
    /\ \E c, d \in DOMAIN served.calls :
          /\ served.calls[c].pc = "done"
          /\ served.calls[c].recorded = <<<<"failed", "load">>>>
          /\ served.calls[d].pc = "returning"
          /\ served.calls[d].recorded = <<<<"success", "complete">>>>

\* ------------------------------------------------------ timed-out requests
\* who has written a response to the request
Writers == {served.written[i].by : i \in DOMAIN served.written}

\* C39: the handler and the middleware are never both inside their c.JSON, at most
\* one of them has written a response, and when the timeout response has been written
\* the handler is not writing one.
C39_OneResponseNeverConcurrent ==
    served.op = "request" =>
        /\ ~(served.handler = "writing" /\ served.mw = "writing")
        /\ Cardinality(Writers) <= 1
        /\ "timeout" \in Writers => served.handler # "writing"

\* ------------------------------------------------------- fetch statuses
\* the upstream answered with status 200 and a body that decodes
OK200(up) == up.kind = "response" /\ up.status = 200 /\ up.body = "json"

\* C40: a fetch returns no error exactly when the upstream answered with status 200
\* and a body that decodes, and then it returns the records served; after any other
\* answer, status 201 included, it returns an error and no records, and once
\* extraction is over a fetch that returned an error has left the run failed with
\* "failed to extract data".
C40_Only200Decoded ==
    /\ [][\A up \in Upstream :
            /\ FetchAds(up) =>
                  /\ adsFetch'.err = <<>> <=> OK200(up)
                  /\ adsFetch'.data = IF OK200(up) THEN Slice(srcAds) ELSE NilSlice
            /\ FetchCRM(up) =>
                  /\ crmFetch'.err = <<>> <=> OK200(up)
                  /\ crmFetch'.data = IF OK200(up) THEN Slice(srcCRM) ELSE NilSlice]_vars
    /\ []((stage # "Extracting" /\ (adsFetch.err # <<>> \/ crmFetch.err # <<>>))
             => stage = "Failed" /\ err[1] = "failed to extract data")

\* the ads API answered 201 with a body that decodes, the CRM fetch succeeded, and the
\* run has failed
C40_Witness ==
    /\ stage = "Failed"
    /\ adsFetch.err = <<"ads API returned status 201">>
    /\ crmFetch.err = <<>>

====
